---- MODULE Spec2Model ----
(***************************************************************************)
(* A model of the PPL compiler (jlallas384/PPL): the character-level       *)
(* lexer, the recursive-descent parser, the semantic analyzer, the C code  *)
(* generator and the Compiler facade that drives them.                     *)
(*                                                                         *)
(* Source text is a TLA+ string; the character at 0-based index i of s is  *)
(* SubSeq(s, i+1, i+1).  Python's None is the empty sequence <<>> for an   *)
(* Optional value (a present value v is <<v>>).                            *)
(***************************************************************************)
EXTENDS Integers, Sequences, FiniteSets, TLC

VARIABLES
    source,     \* the input text given to Lexer / compile_source / parse
    lexer,      \* Lexer fields: ptr, linenum, column
    tokens,     \* the tokens returned by lex() so far, in order
    pc,         \* position of the running entry point
    comp,       \* Compiler.errors and the CompilationResult / raised exception
    ast,        \* the Program (or expression) the parser returned
    an,         \* SemanticAnalyzer fields
    kont,       \* the analyzer's call stack of statement lists being walked
    ccode,      \* text produced by the code generator
    generator,  \* CodeGenerator fields: output, indent_level, class_info
    call        \* the arguments and the result of a call of _types_compatible

vars == <<source, lexer, tokens, pc, comp, ast, an, kont, ccode, generator, call>>

(***************************************************************************)
(* Bounds                                                                  *)
(***************************************************************************)
MaxLexLen == 3      \* longest enumerated lexer input
MaxEofCalls == 2    \* lex() calls observed once the input is exhausted

(***************************************************************************)
(* Lexer  (src/compiler/lexer/lexer.py)                                    *)
(***************************************************************************)
Lower == {"a","b","c","d","e","f","g","h","i","j","k","l","m",
          "n","o","p","q","r","s","t","u","v","w","x","y","z"}
Upper == {"A","B","C","D","E","F","G","H","I","J","K","L","M",
          "N","O","P","Q","R","S","T","U","V","W","X","Y","Z"}
Letter == Lower \cup Upper
Digit == {"0","1","2","3","4","5","6","7","8","9"}
\* a character for which str.isdigit() holds although it is no decimal digit
\* (the superscript two stands for these)
OtherDigit == {"²"}
\* str.isdigit() and str.isalnum() on the characters the model draws from
IsDigit == Digit \cup OtherDigit
AlNum == Letter \cup IsDigit

\* keywords: one entry per KW_ member of TokenKind, keyed by its lower-case name
keywords ==
    [w \in {"int","string","float","char","bool","fn","if","else","class","new",
            "return","while","for","break","continue","true","false","let"} |->
        CASE w = "int" -> "KW_INT"        [] w = "string" -> "KW_STRING"
          [] w = "float" -> "KW_FLOAT"    [] w = "char" -> "KW_CHAR"
          [] w = "bool" -> "KW_BOOL"      [] w = "fn" -> "KW_FN"
          [] w = "if" -> "KW_IF"          [] w = "else" -> "KW_ELSE"
          [] w = "class" -> "KW_CLASS"    [] w = "new" -> "KW_NEW"
          [] w = "return" -> "KW_RETURN"  [] w = "while" -> "KW_WHILE"
          [] w = "for" -> "KW_FOR"        [] w = "break" -> "KW_BREAK"
          [] w = "continue" -> "KW_CONTINUE" [] w = "true" -> "KW_TRUE"
          [] w = "false" -> "KW_FALSE"    [] w = "let" -> "KW_LET"]

keyword_or_identifier(s) ==
    IF s \in DOMAIN keywords THEN keywords[s] ELSE "IDENTIFIER"

Token(kind, linenum, column, value) ==
    [kind |-> kind, linenum |-> linenum, column |-> column, value |-> value]

EofToken == Token("EOF", -1, -1, "")

\* Lexer.__init__
NewLexer == [ptr |-> 0, linenum |-> 1, column |-> 0]

done(inp, lx) == lx.ptr >= Len(inp)

peek(inp, lx) == SubSeq(inp, lx.ptr + 1, lx.ptr + 1)

\* consume: the character returned is peek(inp, lx) of the state before
consume(lx) == [lx EXCEPT !.column = @ + 1, !.ptr = @ + 1]

\* try_eat(c) succeeds exactly when this holds, and then consumes
can_eat(inp, lx, c) == ~done(inp, lx) /\ peek(inp, lx) = c

\* while not self.done() and self.peek() in S: value += self.consume()
RECURSIVE ConsumeWhile(_, _, _, _)
ConsumeWhile(inp, lx, S, value) ==
    IF ~done(inp, lx) /\ peek(inp, lx) \in S
    THEN ConsumeWhile(inp, consume(lx), S, value \o peek(inp, lx))
    ELSE [lx |-> lx, value |-> value]

\* the comment loop: while not self.done() and self.peek() != '\n': consume()
RECURSIVE SkipComment(_, _)
SkipComment(inp, lx) ==
    IF ~done(inp, lx) /\ peek(inp, lx) # "\n"
    THEN SkipComment(inp, consume(lx))
    ELSE lx

\* the body loop of a string literal; bad = the early `return invalid(value)`
RECURSIVE StringBody(_, _, _)
StringBody(inp, lx, value) ==
    IF ~done(inp, lx) /\ peek(inp, lx) \notin {"\n", "\""}
    THEN IF can_eat(inp, lx, "\\")
         THEN LET l1 == consume(lx)
                  v1 == value \o "\\"
              IN  IF done(inp, l1) \/ peek(inp, l1) = "\n"
                  THEN [lx |-> l1, value |-> v1, bad |-> TRUE]
                  ELSE StringBody(inp, consume(l1), v1 \o peek(inp, l1))
         ELSE StringBody(inp, consume(lx), value \o peek(inp, lx))
    ELSE [lx |-> lx, value |-> value, bad |-> FALSE]

\* one- or two-character operator: c, or c= when '=' follows
OpOrEq(inp, l1, mk, c, kind, kindEq) ==
    IF can_eat(inp, l1, "=")
    THEN [tok |-> Token(kindEq, mk.linenum, mk.column, c \o "="), lx |-> consume(l1)]
    ELSE [tok |-> Token(kind, mk.linenum, mk.column, c), lx |-> l1]

\* Doubled with the `if not self.done()` guard before the second consume()
\* left out
Doubled_unguarded(inp, l1, mk, c) ==
    IF ~can_eat(inp, l1, c)
    THEN [tok |-> Token("INVALID", mk.linenum, mk.column,
                        IF ~done(inp, l1) THEN c \o peek(inp, l1) ELSE c),
          lx |-> consume(l1)]
    ELSE [tok |-> Token("OP_ANDAND", mk.linenum, mk.column, c \o c), lx |-> consume(l1)]

\* case '&' / case '|': both return kind OP_ANDAND when doubled
Doubled(inp, l1, mk, c) ==
    IF ~can_eat(inp, l1, c)
    THEN IF ~done(inp, l1)
         THEN [tok |-> Token("INVALID", mk.linenum, mk.column, c \o peek(inp, l1)),
               lx |-> consume(l1)]
         ELSE [tok |-> Token("INVALID", mk.linenum, mk.column, c), lx |-> l1]
    ELSE [tok |-> Token("OP_ANDAND", mk.linenum, mk.column, c \o c), lx |-> consume(l1)]

Punct == [c \in {"[", "]", "{", "}", "(", ")", ";", ":", ".", ",", "#"} |->
    CASE c = "[" -> "LBRACE"   [] c = "]" -> "RBRACE"
      [] c = "{" -> "LBRACE"   [] c = "}" -> "RBRACE"
      [] c = "(" -> "LPAREN"   [] c = ")" -> "RPAREN"
      [] c = ";" -> "SEMICOLON" [] c = ":" -> "COLON"
      [] c = "." -> "DOT"      [] c = "," -> "COMMA"
      [] c = "#" -> "HASH"]

\* Lexer.lex: returns one token and the lexer state it leaves behind
RECURSIVE lex(_, _)
lex(inp, lx) ==
    IF ~(lx.ptr < Len(inp)) THEN [tok |-> EofToken, lx |-> lx]
    ELSE
    LET mk == lx                        \* tokener(): linenum, column captured
        c  == peek(inp, lx)
        l1 == consume(lx)
        make(kind, value, l2) == [tok |-> Token(kind, mk.linenum, mk.column, value), lx |-> l2]
    IN
    CASE c \in Letter ->
            LET r == ConsumeWhile(inp, l1, AlNum, c)
            IN  make(keyword_or_identifier(r.value), r.value, r.lx)
      [] c = "+" -> OpOrEq(inp, l1, mk, c, "OP_PLUS", "OP_PLUSEQ")
      [] c = "-" -> OpOrEq(inp, l1, mk, c, "OP_MINUS", "OP_MINUSEQ")
      [] c = "*" -> OpOrEq(inp, l1, mk, c, "OP_MULTIPLY", "OP_MULTIPLYEQ")
      [] c = "/" ->
            IF can_eat(inp, l1, "=") THEN make("OP_DIVIDEEQ", "/=", consume(l1))
            ELSE IF can_eat(inp, l1, "/") THEN lex(inp, SkipComment(inp, consume(l1)))
            ELSE make("OP_DIVIDE", "/", l1)
      [] c = "%" -> OpOrEq(inp, l1, mk, c, "OP_MODULO", "OP_MODULOEQ")
      [] c = "=" -> OpOrEq(inp, l1, mk, c, "EQUAL", "OP_EQUALEQUAL")
      [] c = "<" -> OpOrEq(inp, l1, mk, c, "OP_LESS", "OP_LEQ")
      [] c = ">" -> OpOrEq(inp, l1, mk, c, "OP_GREATER", "OP_GEQ")
      [] c = "!" -> OpOrEq(inp, l1, mk, c, "OP_NOT", "OP_NOTEQUAL")
      [] c \in {"&", "|"} -> Doubled(inp, l1, mk, c)
      [] c \in Digit ->
            LET r == ConsumeWhile(inp, l1, IsDigit, c)
            IN  IF can_eat(inp, r.lx, ".")
                THEN LET f == ConsumeWhile(inp, consume(r.lx), IsDigit, r.value \o ".")
                     IN  make("FLOAT_CONSTANT", f.value, f.lx)
                ELSE make("INTEGER_CONSTANT", r.value, r.lx)
      [] c = "\"" ->
            LET r == StringBody(inp, l1, c)
            IN  IF r.bad THEN make("INVALID", r.value, r.lx)
                ELSE IF ~can_eat(inp, r.lx, "\"") THEN make("INVALID", r.value, r.lx)
                ELSE make("STRING_CONSTANT", r.value \o "\"", consume(r.lx))
      [] c = "'" ->
            LET esc == can_eat(inp, l1, "\\")
                l2  == IF esc THEN consume(l1) ELSE l1
                v2  == IF esc THEN c \o "\\" ELSE c
            IN  IF esc /\ (done(inp, l2) \/ peek(inp, l2) = "\n")
                THEN make("INVALID", v2, l2)
                ELSE LET l3 == IF ~done(inp, l2) THEN consume(l2) ELSE l2
                         v3 == IF ~done(inp, l2) THEN v2 \o peek(inp, l2) ELSE v2
                     IN  IF ~can_eat(inp, l3, "'") THEN make("INVALID", v3, l3)
                         ELSE make("CHAR_CONSTANT", v3 \o "'", consume(l3))
      [] c \in DOMAIN Punct -> make(Punct[c], c, l1)
      [] c = "\n" -> lex(inp, [l1 EXCEPT !.linenum = @ + 1, !.column = 0])
      [] c \in {"\r", " ", "\t"} -> lex(inp, l1)
      [] OTHER -> make("INVALID", c, l1)

\* the token stream up to and including the first EOF (what a caller that
\* loops `while True: tok = lexer.lex(); ...; if tok.eof(): break` collects).
\* LexTurns runs at most n turns of that loop from lexer state lx; the turns
\* are split in halves so that the evaluation depth is logarithmic in n.
RECURSIVE LexTurns(_, _, _)
LexTurns(inp, lx, n) ==
    IF n <= 1
    THEN \* one turn: tok = lexer.lex(); tokens.append(tok)
         LET r == lex(inp, lx) IN [toks |-> <<r.tok>>, lx |-> r.lx]
    ELSE LET a == LexTurns(inp, lx, n \div 2)
         IN  IF a.toks[Len(a.toks)].kind = "EOF" THEN a
             ELSE LET b == LexTurns(inp, a.lx, n - (n \div 2))
                  IN  [toks |-> a.toks \o b.toks, lx |-> b.lx]

\* every turn but the last consumes at least one character
LexAll(inp) == LexTurns(inp, NewLexer, Len(inp) + 1).toks

(***************************************************************************)
(* AST  (src/compiler/parser/ast.py): a node is a record tagged by `node`. *)
(***************************************************************************)
SourceLocation(line, column) == [line |-> line, column |-> column]

None == <<>>
Some(v) == <<v>>
IsNone(o) == Len(o) = 0
IsSome(o) == Len(o) > 0
The(o) == o[1]

TypeNode(name, is_array, loc) ==
    [node |-> "TypeNode", name |-> name, is_array |-> is_array, loc |-> loc]

DigitVal == [d \in Digit |->
    CASE d = "0" -> 0 [] d = "1" -> 1 [] d = "2" -> 2 [] d = "3" -> 3 [] d = "4" -> 4
      [] d = "5" -> 5 [] d = "6" -> 6 [] d = "7" -> 7 [] d = "8" -> 8 [] d = "9" -> 9]

\* int(tok.value) for a token of decimal digits
RECURSIVE IntOf(_)
IntOf(s) ==
    IF Len(s) = 0 THEN 0
    ELSE 10 * IntOf(SubSeq(s, 1, Len(s) - 1)) + DigitVal[SubSeq(s, Len(s), Len(s))]

RECURSIVE StripTrailingZeros(_)
StripTrailingZeros(s) ==
    IF Len(s) > 0 /\ SubSeq(s, Len(s), Len(s)) = "0"
    THEN StripTrailingZeros(SubSeq(s, 1, Len(s) - 1))
    ELSE s

RECURSIVE IndexOfDot(_, _)
IndexOfDot(s, i) ==
    IF i > Len(s) THEN 0
    ELSE IF SubSeq(s, i, i) = "." THEN i ELSE IndexOfDot(s, i + 1)

\* float(tok.value) for a token digits '.' digits*: the value is determined by
\* the integer part and the fraction digits up to trailing zeros
FloatOf(s) ==
    LET d == IndexOfDot(s, 1)
    IN  [ip |-> IntOf(SubSeq(s, 1, d - 1)),
         fr |-> StripTrailingZeros(SubSeq(s, d + 1, Len(s)))]

(***************************************************************************)
(* Parser  (src/compiler/parser/parser.py)                                 *)
(*                                                                         *)
(* A parser state p is [current, lx]: the lookahead token and the lexer    *)
(* the parser owns, src being that lexer's input.  The lexer is private to *)
(* the parser and deterministic, so it is represented by the tokens its    *)
(* next calls of lex() return, up to the first EOF; every call after that  *)
(* returns EOF again.  A parse function returns                            *)
(*   [ok |-> TRUE,  val |-> node, p |-> state after, err |-> None]    or   *)
(*   [ok |-> FALSE, val |-> None, p |-> state at the raise, err |-> e]     *)
(* where the second form is a raised ParseError e = [message, token].      *)
(***************************************************************************)
\* the next call of self.lexer.lex()
ParserLex(lx) ==
    IF lx = <<>> THEN [current |-> EofToken, lx |-> <<>>]
    ELSE [current |-> Head(lx), lx |-> Tail(lx)]

\* Parser.__init__: self.current = self.lexer.lex()
NewParser(src) == ParserLex(LexAll(src))

\* advance(): the state after it (the token it returns is p.current)
advance(src, p) == ParserLex(p.lx)

cur(src, p) == p.current

loc(src, p) == SourceLocation(cur(src, p).linenum, cur(src, p).column)

check(src, p, kind) == cur(src, p).kind = kind

Ok(val, p) == [ok |-> TRUE, val |-> val, p |-> p, err |-> None]

ParseError(message, token) == [message |-> message, token |-> token]

Raise(message, src, p) ==
    [ok |-> FALSE, val |-> None, p |-> p, err |-> Some(ParseError(message, cur(src, p)))]

\* an exception that is no ParseError: the ValueError of int() or float()
ValueError(message) == [exception |-> "ValueError", message |-> message]

IsParseError(e) == "token" \in DOMAIN e

\* int(s) and float(s) accept decimal digits only
Decimal(s) == \A k \in 1..Len(s) : SubSeq(s, k, k) \in Digit \cup {"."}

\* K applied to v: a local variable assigned once
Bind(v, K(_)) == K(v)

\* the rest K of a parse function after a call that returned r: a
\* ParseError raised by the call propagates through the caller
Then(r, K(_)) == IF r.ok THEN K(r) ELSE r

\* the result r with its value wrapped as a present Optional
Opt(r) == IF r.ok THEN Ok(Some(r.val), r.p) ELSE r

expect(src, p, kind, message) ==
    IF check(src, p, kind) THEN Ok(cur(src, p), advance(src, p))
    ELSE Raise(message \o ", got " \o cur(src, p).kind, src, p)

\* match(kind): the state after the call (unchanged when the kind differs)
match(src, p, kind) == IF check(src, p, kind) THEN advance(src, p) ELSE p

\* Parser.synchronize: the state it leaves the parser in
RECURSIVE SyncLoop(_, _)
SyncLoop(src, p) ==
    IF check(src, p, "EOF") THEN p
    ELSE IF cur(src, p).kind \in {"KW_CLASS", "KW_FN", "KW_LET", "KW_IF",
                                 "KW_WHILE", "KW_FOR", "KW_RETURN"}
         THEN p
         ELSE SyncLoop(src, advance(src, p))

synchronize(src, p) == SyncLoop(src, advance(src, p))

\* parse_type
parse_type(src, p) ==
    LET l == loc(src, p)
        prim == [k \in {"KW_INT", "KW_STRING", "KW_FLOAT", "KW_CHAR", "KW_BOOL"} |->
                    CASE k = "KW_INT" -> "int" [] k = "KW_STRING" -> "string"
                      [] k = "KW_FLOAT" -> "float" [] k = "KW_CHAR" -> "char"
                      [] k = "KW_BOOL" -> "bool"]
        k == cur(src, p).kind
    IN  IF k \notin DOMAIN prim /\ k # "IDENTIFIER"
        THEN Raise("Expected type name", src, p)
        ELSE LET name == IF k \in DOMAIN prim THEN prim[k] ELSE cur(src, p).value
                 p1 == advance(src, p)
             IN  IF check(src, p1, "LBRACKET")
                 THEN LET r == expect(src, advance(src, p1), "RBRACKET", "Expected ']' after '['")
                      IN  IF ~r.ok THEN r ELSE Ok(TypeNode(name, TRUE, l), r.p)
                 ELSE Ok(TypeNode(name, FALSE, l), p1)

BinaryExpr(left, op, right, l) ==
    [node |-> "BinaryExpr", left |-> left, op |-> op, right |-> right, loc |-> l]

\* the operators matched at each precedence level, lowest first:
\* parse_or_expr, parse_and_expr, parse_equality_expr, parse_relational_expr,
\* parse_additive_expr, parse_multiplicative_expr
LevelOps(level) ==
    CASE level = 1 -> [k \in {"OP_OROR"} |-> "OR"]
      [] level = 2 -> [k \in {"OP_ANDAND"} |-> "AND"]
      [] level = 3 -> [k \in {"OP_EQUALEQUAL", "OP_NOTEQUAL"} |->
                          IF k = "OP_EQUALEQUAL" THEN "EQ" ELSE "NEQ"]
      [] level = 4 -> [k \in {"OP_LESS", "OP_LEQ", "OP_GREATER", "OP_GEQ"} |->
                          CASE k = "OP_LESS" -> "LT" [] k = "OP_LEQ" -> "LEQ"
                            [] k = "OP_GREATER" -> "GT" [] k = "OP_GEQ" -> "GEQ"]
      [] level = 5 -> [k \in {"OP_PLUS", "OP_MINUS"} |->
                          IF k = "OP_PLUS" THEN "ADD" ELSE "SUB"]
      [] level = 6 -> [k \in {"OP_MULTIPLY", "OP_DIVIDE", "OP_MODULO"} |->
                          CASE k = "OP_MULTIPLY" -> "MUL" [] k = "OP_DIVIDE" -> "DIV"
                            [] k = "OP_MODULO" -> "MOD"]

RECURSIVE parse_binary_level(_, _, _)
RECURSIVE BinaryLoop(_, _, _, _)
RECURSIVE LevelLoops(_, _, _, _)
RECURSIVE parse_unary_expr(_, _)
RECURSIVE parse_postfix_expr(_, _)
RECURSIVE PostfixLoop(_, _, _)
RECURSIVE parse_argument_list(_, _)
RECURSIVE ArgumentLoop(_, _, _)
RECURSIVE parse_primary_expr(_, _)
RECURSIVE parse_new_expr(_, _)

\* the operand of level `level`: the next tighter level, or a unary expression
parse_operand(src, p, level) ==
    IF level = 6 THEN parse_unary_expr(src, p) ELSE parse_binary_level(src, p, level + 1)

\* the `while self.match(...)` loop of a binary level: left-associative
BinaryLoop(src, p, level, left) ==
    IF cur(src, p).kind \in DOMAIN LevelOps(level)
    THEN Then(parse_operand(src, advance(src, p), level), LAMBDA r:
            BinaryLoop(src, r.p, level,
                       BinaryExpr(left, LevelOps(level)[cur(src, p).kind], r.val, left.loc)))
    ELSE Ok(left, p)

\* the loops of levels l, l - 1, ..., level run in turn on the operand result r
LevelLoops(src, r, l, level) ==
    IF r.ok /\ l >= level
    THEN LevelLoops(src, BinaryLoop(src, r.p, l, r.val), l - 1, level)
    ELSE r

\* parse_<level>_expr: `left = <next tighter level>()` followed by the level's
\* loop.  The chain of first operands bottoms out in parse_unary_expr, so the
\* descent is unrolled: the unary expression is parsed first and the loops of
\* levels 6 down to `level` are then run on it, innermost first.
parse_binary_level(src, p, level) ==
    LevelLoops(src, parse_unary_expr(src, p), 6, level)

parse_or_expr(src, p) == parse_binary_level(src, p, 1)
parse_and_expr(src, p) == parse_binary_level(src, p, 2)
parse_equality_expr(src, p) == parse_binary_level(src, p, 3)
parse_relational_expr(src, p) == parse_binary_level(src, p, 4)
parse_additive_expr(src, p) == parse_binary_level(src, p, 5)
parse_multiplicative_expr(src, p) == parse_binary_level(src, p, 6)

parse_expression(src, p) == parse_or_expr(src, p)

parse_unary_expr(src, p) ==
    IF cur(src, p).kind \in {"OP_MINUS", "OP_NOT"}
    THEN Then(parse_unary_expr(src, advance(src, p)), LAMBDA r:
            Ok([node |-> "UnaryExpr",
                op |-> IF check(src, p, "OP_MINUS") THEN "NEG" ELSE "NOT",
                operand |-> r.val, loc |-> loc(src, p)], r.p))
    ELSE parse_postfix_expr(src, p)

PostfixLoop(src, p, expr) ==
    CASE check(src, p, "DOT") ->
            Bind(match(src, advance(src, p), "HASH"), LAMBDA p1:
            Then(expect(src, p1, "IDENTIFIER", "Expected member name"), LAMBDA r:
                PostfixLoop(src, r.p,
                    [node |-> "MemberExpr", obj |-> expr, member |-> r.val.value,
                     is_private |-> p1 # advance(src, p), loc |-> expr.loc])))
      [] check(src, p, "LPAREN") ->
            Then(parse_argument_list(src, advance(src, p)), LAMBDA a:
            Then(expect(src, a.p, "RPAREN", "Expected ')' after arguments"), LAMBDA r:
                PostfixLoop(src, r.p,
                    [node |-> "CallExpr", callee |-> expr,
                     arguments |-> a.val, loc |-> expr.loc])))
      [] check(src, p, "LBRACKET") ->
            Then(parse_expression(src, advance(src, p)), LAMBDA i:
            Then(expect(src, i.p, "RBRACKET", "Expected ']' after index"), LAMBDA r:
                PostfixLoop(src, r.p,
                    [node |-> "IndexExpr", obj |-> expr,
                     index |-> i.val, loc |-> expr.loc])))
      [] OTHER -> Ok(expr, p)

parse_postfix_expr(src, p) ==
    Then(parse_primary_expr(src, p), LAMBDA r: PostfixLoop(src, r.p, r.val))

\* while self.match(COMMA): args.append(self.parse_expression())
ArgumentLoop(src, p, args) ==
    IF check(src, p, "COMMA")
    THEN Then(parse_expression(src, advance(src, p)), LAMBDA r:
            ArgumentLoop(src, r.p, Append(args, r.val)))
    ELSE Ok(args, p)

parse_argument_list(src, p) ==
    IF ~check(src, p, "RPAREN")
    THEN Then(parse_expression(src, p), LAMBDA r: ArgumentLoop(src, r.p, <<r.val>>))
    ELSE Ok(<<>>, p)

\* a literal or identifier node built from the current token, which is consumed
Literal(node, src, p) == Ok(node @@ [loc |-> loc(src, p)], advance(src, p))

\* self.advance() followed by int(tok.value) or float(tok.value) raising
Unconvertible(what, src, p) ==
    [ok |-> FALSE, val |-> None, p |-> advance(src, p),
     err |-> Some(ValueError("invalid literal for " \o what \o ": " \o cur(src, p).value))]

parse_primary_expr(src, p) ==
    LET tok == cur(src, p)
    IN  CASE tok.kind = "INTEGER_CONSTANT" ->
                IF Decimal(tok.value)
                THEN Literal([node |-> "IntLiteral", value |-> IntOf(tok.value)], src, p)
                ELSE Unconvertible("int()", src, p)
          [] tok.kind = "FLOAT_CONSTANT" ->
                IF Decimal(tok.value)
                THEN Literal([node |-> "FloatLiteral", value |-> FloatOf(tok.value)], src, p)
                ELSE Unconvertible("float()", src, p)
          [] tok.kind = "STRING_CONSTANT" ->
                Literal([node |-> "StringLiteral", value |-> tok.value], src, p)
          [] tok.kind = "CHAR_CONSTANT" ->
                Literal([node |-> "CharLiteral", value |-> tok.value], src, p)
          [] tok.kind = "KW_TRUE" ->
                Literal([node |-> "BoolLiteral", value |-> TRUE], src, p)
          [] tok.kind = "KW_FALSE" ->
                Literal([node |-> "BoolLiteral", value |-> FALSE], src, p)
          [] tok.kind = "IDENTIFIER" ->
                Literal([node |-> "Identifier", name |-> tok.value], src, p)
          [] tok.kind = "KW_NEW" -> parse_new_expr(src, p)
          [] tok.kind = "LPAREN" ->
                Then(parse_expression(src, advance(src, p)), LAMBDA e:
                Then(expect(src, e.p, "RPAREN", "Expected ')' after expression"), LAMBDA r:
                    Ok(e.val, r.p)))
          [] OTHER -> Raise("Unexpected token in expression: " \o tok.kind, src, p)

parse_new_expr(src, p) ==
    Then(expect(src, p, "KW_NEW", "Expected 'new'"), LAMBDA r1:
    Then(expect(src, r1.p, "IDENTIFIER", "Expected class name"), LAMBDA r2:
    Then(expect(src, r2.p, "LPAREN", "Expected '(' after class name"), LAMBDA r3:
    Then(parse_argument_list(src, r3.p), LAMBDA a:
    Then(expect(src, a.p, "RPAREN", "Expected ')' after arguments"), LAMBDA r4:
        Ok([node |-> "NewExpr", class_name |-> r2.val.value,
            arguments |-> a.val, loc |-> loc(src, p)], r4.p))))))


AssignOps == [k \in {"EQUAL", "OP_PLUSEQ", "OP_MINUSEQ", "OP_MULTIPLYEQ",
                     "OP_DIVIDEEQ", "OP_MODULOEQ"} |->
    CASE k = "EQUAL" -> "ASSIGN"             [] k = "OP_PLUSEQ" -> "ADD_ASSIGN"
      [] k = "OP_MINUSEQ" -> "SUB_ASSIGN"    [] k = "OP_MULTIPLYEQ" -> "MUL_ASSIGN"
      [] k = "OP_DIVIDEEQ" -> "DIV_ASSIGN"   [] k = "OP_MODULOEQ" -> "MOD_ASSIGN"]

parse_expr_or_assignment_stmt(src, p) ==
    Then(parse_expression(src, p), LAMBDA e:
        IF cur(src, e.p).kind \in DOMAIN AssignOps
        THEN Then(parse_expression(src, advance(src, e.p)), LAMBDA v:
                Ok([node |-> "Assignment", target |-> e.val,
                    op |-> AssignOps[cur(src, e.p).kind], value |-> v.val,
                    loc |-> loc(src, p)], match(src, v.p, "SEMICOLON")))
        ELSE Ok([node |-> "ExprStmt", expr |-> e.val, loc |-> loc(src, p)],
                match(src, e.p, "SEMICOLON")))

parse_var_decl(src, p) ==
    Then(expect(src, p, "KW_LET", "Expected 'let'"), LAMBDA r1:
    Then(expect(src, r1.p, "IDENTIFIER", "Expected variable name"), LAMBDA r2:
    Then(IF check(src, r2.p, "COLON")
         THEN Opt(parse_type(src, advance(src, r2.p))) ELSE Ok(None, r2.p), LAMBDA t:
    Then(IF check(src, t.p, "EQUAL")
         THEN Opt(parse_expression(src, advance(src, t.p))) ELSE Ok(None, t.p), LAMBDA i:
        Ok([node |-> "VarDecl", name |-> r2.val.value,
            type_annotation |-> t.val, initializer |-> i.val,
            loc |-> loc(src, p)], match(src, i.p, "SEMICOLON"))))))

parse_return_stmt(src, p) ==
    Then(expect(src, p, "KW_RETURN", "Expected 'return'"), LAMBDA r1:
    Then(IF ~check(src, r1.p, "SEMICOLON") /\ ~check(src, r1.p, "RBRACE")
         THEN Opt(parse_expression(src, r1.p)) ELSE Ok(None, r1.p), LAMBDA v:
        Ok([node |-> "ReturnStmt", value |-> v.val, loc |-> loc(src, p)],
           match(src, v.p, "SEMICOLON"))))

RECURSIVE parse_block(_, _)
RECURSIVE BlockLoop(_, _, _)
RECURSIVE parse_statement(_, _)
RECURSIVE parse_if_stmt(_, _)
RECURSIVE parse_while_stmt(_, _)
RECURSIVE parse_for_stmt(_, _)

\* while not check(RBRACE) and not check(EOF): statements.append(parse_statement())
BlockLoop(src, p, statements) ==
    IF ~check(src, p, "RBRACE") /\ ~check(src, p, "EOF")
    THEN Then(parse_statement(src, p), LAMBDA r:
            BlockLoop(src, r.p, Append(statements, r.val)))
    ELSE Ok(statements, p)

parse_block(src, p) ==
    Then(expect(src, p, "LBRACE", "Expected '{'"), LAMBDA r1:
    Then(BlockLoop(src, r1.p, <<>>), LAMBDA b:
    Then(expect(src, b.p, "RBRACE", "Expected '}'"), LAMBDA r2:
        Ok(b.val, r2.p))))

parse_statement(src, p) ==
    CASE check(src, p, "KW_LET") -> parse_var_decl(src, p)
      [] check(src, p, "KW_IF") -> parse_if_stmt(src, p)
      [] check(src, p, "KW_WHILE") -> parse_while_stmt(src, p)
      [] check(src, p, "KW_FOR") -> parse_for_stmt(src, p)
      [] check(src, p, "KW_RETURN") -> parse_return_stmt(src, p)
      [] check(src, p, "KW_BREAK") ->
            Ok([node |-> "BreakStmt", loc |-> loc(src, p)], match(src, advance(src, p), "SEMICOLON"))
      [] check(src, p, "KW_CONTINUE") ->
            Ok([node |-> "ContinueStmt", loc |-> loc(src, p)], match(src, advance(src, p), "SEMICOLON"))
      [] check(src, p, "LBRACE") ->
            \* Block(statements=self.parse_block(), loc=self.loc()): the
            \* location is read after the block has been consumed
            Then(parse_block(src, p), LAMBDA b:
                Ok([node |-> "Block", statements |-> b.val, loc |-> loc(src, b.p)], b.p))
      [] OTHER -> parse_expr_or_assignment_stmt(src, p)

parse_if_stmt(src, p) ==
    Then(expect(src, p, "KW_IF", "Expected 'if'"), LAMBDA r1:
    Then(parse_expression(src, r1.p), LAMBDA c:
    Then(parse_block(src, c.p), LAMBDA t:
    Then(IF ~check(src, t.p, "KW_ELSE") THEN Ok(None, t.p)
         ELSE IF check(src, advance(src, t.p), "KW_IF")
              \* else_branch = [self.parse_if_stmt()]
              THEN Then(parse_if_stmt(src, advance(src, t.p)), LAMBDA n:
                        Ok(Some(<<n.val>>), n.p))
              ELSE Opt(parse_block(src, advance(src, t.p))), LAMBDA e:
        Ok([node |-> "IfStmt", condition |-> c.val, then_branch |-> t.val,
            else_branch |-> e.val, loc |-> loc(src, p)], e.p)))))

parse_while_stmt(src, p) ==
    Then(expect(src, p, "KW_WHILE", "Expected 'while'"), LAMBDA r1:
    Then(parse_expression(src, r1.p), LAMBDA c:
    Then(parse_block(src, c.p), LAMBDA b:
        Ok([node |-> "WhileStmt", condition |-> c.val, body |-> b.val,
            loc |-> loc(src, p)], b.p))))

\* parse_for_stmt up to the body: `for [init]; [condition]; [update]`
ForClauses(src, p) ==
    Then(expect(src, p, "KW_FOR", "Expected 'for'"), LAMBDA r1:
    Then(IF ~check(src, r1.p, "SEMICOLON")
         THEN IF check(src, r1.p, "KW_LET") THEN Opt(parse_var_decl(src, r1.p))
              ELSE Opt(parse_expr_or_assignment_stmt(src, r1.p))
         ELSE Ok(None, advance(src, r1.p)), LAMBDA i:        \* consume semicolon
    Then(IF ~check(src, i.p, "SEMICOLON")
         THEN Opt(parse_expression(src, i.p)) ELSE Ok(None, i.p), LAMBDA c:
    Then(expect(src, c.p, "SEMICOLON", "Expected ';' after for condition"), LAMBDA r2:
    Then(IF ~check(src, r2.p, "LBRACE")
         THEN Opt(parse_expr_or_assignment_stmt(src, r2.p)) ELSE Ok(None, r2.p), LAMBDA u:
        Ok([init |-> i.val, condition |-> c.val, update |-> u.val], u.p))))))

parse_for_stmt(src, p) ==
    Then(ForClauses(src, p), LAMBDA h:
    Then(parse_block(src, h.p), LAMBDA b:
        Ok([node |-> "ForStmt", init |-> h.val.init, condition |-> h.val.condition,
            update |-> h.val.update, body |-> b.val, loc |-> loc(src, p)], b.p)))

parse_parameter(src, p) ==
    Then(expect(src, p, "IDENTIFIER", "Expected parameter name"), LAMBDA r1:
    Then(expect(src, r1.p, "COLON", "Expected ':' after parameter name"), LAMBDA r2:
    Then(parse_type(src, r2.p), LAMBDA t:
        Ok([node |-> "Parameter", name |-> r1.val.value,
            type_annotation |-> t.val, loc |-> loc(src, p)], t.p))))

\* while self.match(COMMA): params.append(self.parse_parameter())
RECURSIVE ParameterLoop(_, _, _)
ParameterLoop(src, p, params) ==
    IF check(src, p, "COMMA")
    THEN Then(parse_parameter(src, advance(src, p)), LAMBDA r:
            ParameterLoop(src, r.p, Append(params, r.val)))
    ELSE Ok(params, p)

parse_parameter_list(src, p) ==
    IF ~check(src, p, "RPAREN")
    THEN Then(parse_parameter(src, p), LAMBDA r: ParameterLoop(src, r.p, <<r.val>>))
    ELSE Ok(<<>>, p)

\* parse_function_decl up to the return type: `fn [#] [!] name(params) [: type]`
FunctionSignature(src, p, already_private) ==
    Then(expect(src, p, "KW_FN", "Expected 'fn'"), LAMBDA r1:
    \* already_private or self.match(HASH) is not None: `or` short-circuits
    Bind(IF already_private THEN r1.p ELSE match(src, r1.p, "HASH"), LAMBDA p1:
    Bind(match(src, p1, "OP_NOT"), LAMBDA p2:
    Then(expect(src, p2, "IDENTIFIER", "Expected function name"), LAMBDA r2:
    Then(expect(src, r2.p, "LPAREN", "Expected '(' after function name"), LAMBDA r3:
    Then(parse_parameter_list(src, r3.p), LAMBDA ps:
    Then(expect(src, ps.p, "RPAREN", "Expected ')' after parameters"), LAMBDA r4:
    Then(IF check(src, r4.p, "COLON")
         THEN Opt(parse_type(src, advance(src, r4.p))) ELSE Ok(None, r4.p), LAMBDA rt:
        Ok([name |-> r2.val.value, params |-> ps.val, return_type |-> rt.val,
            is_private |-> already_private \/ p1 # r1.p,
            is_override |-> p2 # p1], rt.p)))))))))

parse_function_decl(src, p, is_member, already_private) ==
    Then(FunctionSignature(src, p, already_private), LAMBDA h:
    Then(IF check(src, h.p, "LBRACE")
         THEN Opt(parse_block(src, h.p)) ELSE Ok(None, h.p), LAMBDA b:
        Ok([node |-> "FunctionDecl", name |-> h.val.name, params |-> h.val.params,
            return_type |-> h.val.return_type, body |-> b.val,
            is_private |-> h.val.is_private,
            is_override |-> h.val.is_override, loc |-> loc(src, p)], b.p)))

parse_field_decl(src, p, is_private) ==
    Then(expect(src, p, "IDENTIFIER", "Expected field name"), LAMBDA r1:
    Then(expect(src, r1.p, "COLON", "Expected ':' after field name"), LAMBDA r2:
    Then(parse_type(src, r2.p), LAMBDA t:
        Ok([node |-> "FieldDecl", name |-> r1.val.value,
            type_annotation |-> t.val, is_private |-> is_private,
            loc |-> loc(src, p)], t.p))))

\* the member loop of parse_class_decl; val = [fields, methods]
RECURSIVE ClassBodyLoop(_, _, _, _)
ClassBodyLoop(src, p, fields, methods) ==
    IF ~check(src, p, "RBRACE") /\ ~check(src, p, "EOF")
    THEN Bind(match(src, p, "HASH"), LAMBDA p1:
            IF check(src, p1, "KW_FN")
            THEN Then(parse_function_decl(src, p1, TRUE, p1 # p), LAMBDA m:
                    ClassBodyLoop(src, m.p, fields, Append(methods, m.val)))
            ELSE Then(parse_field_decl(src, p1, p1 # p), LAMBDA f:
                    ClassBodyLoop(src, f.p, Append(fields, f.val), methods)))
    ELSE Ok([fields |-> fields, methods |-> methods], p)

\* parse_class_decl up to the opening brace: `class Name [: Base] {`
ClassHead(src, p) ==
    Then(expect(src, p, "KW_CLASS", "Expected 'class'"), LAMBDA r1:
    Then(expect(src, r1.p, "IDENTIFIER", "Expected class name"), LAMBDA r2:
    Then(IF check(src, r2.p, "COLON")
         THEN Then(expect(src, advance(src, r2.p), "IDENTIFIER", "Expected base class name"),
                   LAMBDA bb: Ok(Some(bb.val.value), bb.p))
         ELSE Ok(None, r2.p), LAMBDA base:
    Then(expect(src, base.p, "LBRACE", "Expected '{' after class declaration"), LAMBDA r3:
        Ok([name |-> r2.val.value, base_class |-> base.val], r3.p)))))

parse_class_decl(src, p) ==
    Then(ClassHead(src, p), LAMBDA h:
    Then(ClassBodyLoop(src, h.p, <<>>, <<>>), LAMBDA body:
    Then(expect(src, body.p, "RBRACE", "Expected '}' after class body"), LAMBDA r4:
        Ok([node |-> "ClassDecl", name |-> h.val.name, base_class |-> h.val.base_class,
            fields |-> body.val.fields, methods |-> body.val.methods,
            loc |-> loc(src, p)], r4.p))))

Program(classes, functions) ==
    [node |-> "Program", classes |-> classes, functions |-> functions,
     loc |-> SourceLocation(1, 1)]

\* the loop of Parser.parse: a ParseError is caught, recorded, and followed
\* by synchronize(); any other exception leaves parse() (raised)
RECURSIVE ParseLoop(_, _, _, _, _)
ParseLoop(src, p, classes, functions, errors) ==
    IF check(src, p, "EOF")
    THEN [program |-> Program(classes, functions), errors |-> errors, raised |-> None]
    ELSE Bind(CASE check(src, p, "KW_CLASS") -> parse_class_decl(src, p)
                [] check(src, p, "KW_FN") -> parse_function_decl(src, p, FALSE, FALSE)
                [] OTHER -> Raise("Expected class or function declaration", src, p),
              LAMBDA r:
                IF ~r.ok /\ ~IsParseError(The(r.err))
                THEN [program |-> None, errors |-> errors, raised |-> r.err]
                ELSE IF ~r.ok
                THEN ParseLoop(src, synchronize(src, r.p), classes, functions,
                               Append(errors, The(r.err)))
                ELSE IF r.val.node = "ClassDecl"
                     THEN ParseLoop(src, r.p, Append(classes, r.val), functions, errors)
                     ELSE ParseLoop(src, r.p, classes, Append(functions, r.val), errors))


\* parse(source): Parser(Lexer(source)).parse() and parser.errors
parse(src) == ParseLoop(src, NewParser(src), <<>>, <<>>, <<>>)

(***************************************************************************)
(* Semantic analyzer  (src/compiler/semantic/analyzer.py)                  *)
(*                                                                         *)
(* A Scope is its `symbols` dict, an insertion-ordered sequence of symbols *)
(* with distinct names; the parent links are the stack an.scopes, whose    *)
(* last element is current_scope (the global scope when the stack is       *)
(* empty).  An Optional[TypeInfo] is None or Some(t).                      *)
(***************************************************************************)
SemanticError(message, line, column) ==
    [message |-> message, line |-> line, column |-> column]

TypeInfo(name, is_array) == [name |-> name, is_array |-> is_array]

is_numeric(t) == t.name \in {"int", "float"} /\ ~t.is_array

is_primitive(t) == t.name \in {"int", "float", "bool", "char", "string"} /\ ~t.is_array

INT_TYPE == TypeInfo("int", FALSE)
FLOAT_TYPE == TypeInfo("float", FALSE)
BOOL_TYPE == TypeInfo("bool", FALSE)
CHAR_TYPE == TypeInfo("char", FALSE)
STRING_TYPE == TypeInfo("string", FALSE)
VOID_TYPE == TypeInfo("void", FALSE)

VarSymbol(name, type_info, is_private) ==
    [sym |-> "var", name |-> name, type_info |-> type_info, is_private |-> is_private]

FuncSymbol(name, params, return_type, is_private, is_override, is_method) ==
    [sym |-> "func", name |-> name, params |-> params, return_type |-> return_type,
     is_private |-> is_private, is_override |-> is_override, is_method |-> is_method]

ClassSymbol(name, base_class, fields, methods) ==
    [sym |-> "class", name |-> name, base_class |-> base_class,
     fields |-> fields, methods |-> methods]

\* dict.get(name) on an insertion-ordered dict of symbols
RECURSIVE DictGet(_, _)
DictGet(d, name) ==
    IF Len(d) = 0 THEN None
    ELSE IF Head(d).name = name THEN Some(Head(d)) ELSE DictGet(Tail(d), name)

\* d[sym.name] = sym: replaces the entry of that name in place, else appends
DictSet(d, sym) ==
    IF \E i \in 1..Len(d) : d[i].name = sym.name
    THEN [i \in 1..Len(d) |-> IF d[i].name = sym.name THEN sym ELSE d[i]]
    ELSE Append(d, sym)

\* Scope.define: the symbols afterwards (unchanged when the name is taken)
define(symbols, sym) ==
    IF IsSome(DictGet(symbols, sym.name)) THEN symbols ELSE Append(symbols, sym)

lookup_local(symbols, name) == DictGet(symbols, name)

\* Scope.lookup from the scope at depth n of the stack, climbing parent links
RECURSIVE ScopeLookup(_, _, _, _)
ScopeLookup(global_scope, scopes, n, name) ==
    IF n = 0 THEN DictGet(global_scope, name)
    ELSE LET here == DictGet(scopes[n], name)
         IN  IF IsSome(here) THEN here ELSE ScopeLookup(global_scope, scopes, n - 1, name)

\* self.current_scope.lookup(name)
lookup(a, name) == ScopeLookup(a.global_scope, a.scopes, Len(a.scopes), name)

\* self.current_scope.symbols
current_symbols(a) == IF Len(a.scopes) = 0 THEN a.global_scope ELSE a.scopes[Len(a.scopes)]

enter_scope(a) == [a EXCEPT !.scopes = Append(@, <<>>)]

exit_scope(a) == [a EXCEPT !.scopes = SubSeq(@, 1, Len(@) - 1)]

\* self.current_scope.define(sym)
define_current(a, sym) ==
    IF Len(a.scopes) = 0
    THEN [a EXCEPT !.global_scope = define(@, sym)]
    ELSE [a EXCEPT !.scopes[Len(a.scopes)] = define(@, sym)]

\* SemanticAnalyzer.error: the SemanticError it appends
error(message, node) == SemanticError(message, node.loc.line, node.loc.column)

type_node_to_info(type_node) ==
    IF IsNone(type_node) THEN None
    ELSE Some(TypeInfo(The(type_node).name, The(type_node).is_array))

\* SemanticAnalyzer.__init__ with _register_builtins
NewAnalyzer ==
    [errors |-> <<>>,
     global_scope |->
        <<FuncSymbol("print", <<[name |-> "value", type |-> STRING_TYPE]>>,
                     Some(VOID_TYPE), FALSE, FALSE, FALSE),
          FuncSymbol("read", <<[name |-> "var", type |-> INT_TYPE]>>,
                     Some(VOID_TYPE), FALSE, FALSE, FALSE)>>,
     scopes |-> <<>>,
     current_class |-> None,
     current_function |-> None,
     loop_depth |-> 0]

NumClassSymbols(global_scope) ==
    Cardinality({i \in 1..Len(global_scope) : global_scope[i].sym = "class"})

\* the `while actual_class:` loop of _types_compatible.  It follows
\* base_class links; when it has followed more links than there are class
\* symbols without returning, it is on a cycle and never returns: "diverges"
RECURSIVE InheritanceLoop(_, _, _, _)
InheritanceLoop(global_scope, actual_class, expected_name, steps) ==
    IF actual_class.name = expected_name THEN "true"
    ELSE IF IsSome(actual_class.base_class)
         THEN LET b == DictGet(global_scope, The(actual_class.base_class))
              IN  IF IsNone(b) \/ The(b).sym # "class" THEN "false"
                  ELSE IF steps >= NumClassSymbols(global_scope) THEN "diverges"
                  ELSE InheritanceLoop(global_scope, The(b), expected_name, steps + 1)
         ELSE "false"

\* _types_compatible(expected, actual): "true", "false" or "diverges"
types_compatible(global_scope, expected, actual) ==
    IF expected = actual THEN "true"
    ELSE IF expected = FLOAT_TYPE /\ actual = INT_TYPE THEN "true"
    ELSE IF ~is_primitive(expected) /\ ~is_primitive(actual)
         THEN LET actual_class == DictGet(global_scope, actual.name)
              IN  IF IsSome(actual_class) /\ The(actual_class).sym = "class"
                  THEN InheritanceLoop(global_scope, The(actual_class), expected.name, 0)
                  ELSE "false"
         ELSE "false"

\* Result of analysing an expression: its Optional type, the errors it
\* reports (in order), and whether the analysis never returns
ER(t, errs, hang) == [t |-> t, errs |-> errs, hang |-> hang]

\* `if not self._types_compatible(e, a): self.error(message, node)`
Incompatible(a, e, act, message, node) ==
    LET c == types_compatible(a.global_scope, e, act)
    IN  [errs |-> IF c = "false" THEN <<error(message, node)>> ELSE <<>>,
         hang |-> c = "diverges"]

RECURSIVE analyze_expr(_, _)
RECURSIVE CallArgsLoop(_, _, _, _, _)

analyze_identifier(a, expr) ==
    LET symbol == lookup(a, expr.name)
    IN  IF IsNone(symbol)
        THEN ER(None, <<error("Undefined variable '" \o expr.name \o "'", expr)>>, FALSE)
        ELSE IF The(symbol).sym = "var" THEN ER(Some(The(symbol).type_info), <<>>, FALSE)
        ELSE IF The(symbol).sym = "func" THEN ER(Some(TypeInfo("function", FALSE)), <<>>, FALSE)
        ELSE ER(None, <<>>, FALSE)

analyze_binary_expr(a, expr) ==
    LET l == analyze_expr(a, expr.left)
        r == IF l.hang THEN ER(None, <<>>, TRUE) ELSE analyze_expr(a, expr.right)
        errs == l.errs \o r.errs
    IN  IF l.hang \/ r.hang THEN ER(None, errs, TRUE)
        ELSE IF IsNone(l.t) \/ IsNone(r.t) THEN ER(None, errs, FALSE)
        ELSE
        LET lt == The(l.t)
            rt == The(r.t)
        IN  CASE expr.op \in {"ADD", "SUB", "MUL", "DIV", "MOD"} ->
                    IF ~is_numeric(lt) \/ ~is_numeric(rt)
                    THEN ER(None, Append(errs,
                              error("Arithmetic operators require numeric operands", expr)), FALSE)
                    ELSE IF lt = FLOAT_TYPE \/ rt = FLOAT_TYPE
                         THEN ER(Some(FLOAT_TYPE), errs, FALSE)
                         ELSE ER(Some(INT_TYPE), errs, FALSE)
              [] expr.op \in {"EQ", "NEQ"} ->
                    LET c == Incompatible(a, lt, rt,
                               "Cannot compare " \o lt.name \o " with " \o rt.name, expr)
                    IN  ER(Some(BOOL_TYPE), errs \o c.errs, c.hang)
              [] expr.op \in {"LT", "LEQ", "GT", "GEQ"} ->
                    IF ~is_numeric(lt) \/ ~is_numeric(rt)
                    THEN ER(Some(BOOL_TYPE), Append(errs,
                              error("Comparison operators require numeric operands", expr)), FALSE)
                    ELSE ER(Some(BOOL_TYPE), errs, FALSE)
              [] expr.op \in {"AND", "OR"} ->
                    LET e == error("Logical operators require boolean operands", expr)
                        el == IF ~(is_numeric(lt) \/ lt = BOOL_TYPE) THEN <<e>> ELSE <<>>
                        er == IF ~(is_numeric(rt) \/ rt = BOOL_TYPE) THEN <<e>> ELSE <<>>
                    IN  IF lt # BOOL_TYPE \/ rt # BOOL_TYPE
                        THEN ER(Some(BOOL_TYPE), errs \o el \o er, FALSE)
                        ELSE ER(Some(BOOL_TYPE), errs, FALSE)
              [] OTHER -> ER(None, errs, FALSE)

analyze_unary_expr(a, expr) ==
    LET o == analyze_expr(a, expr.operand)
    IN  IF o.hang \/ IsNone(o.t) THEN ER(None, o.errs, o.hang)
        ELSE IF expr.op = "NEG"
        THEN IF ~is_numeric(The(o.t))
             THEN ER(o.t, Append(o.errs, error("Negation requires numeric operand", expr)), FALSE)
             ELSE ER(o.t, o.errs, FALSE)
        ELSE IF expr.op = "NOT"
        THEN IF The(o.t) # BOOL_TYPE /\ ~is_numeric(The(o.t))
             THEN ER(Some(BOOL_TYPE),
                     Append(o.errs, error("Logical not requires boolean operand", expr)), FALSE)
             ELSE ER(Some(BOOL_TYPE), o.errs, FALSE)
        ELSE ER(None, o.errs, FALSE)

\* for i, (arg, (param_name, param_type)) in enumerate(zip(arguments, params))
CallArgsLoop(a, expr, params, i, errs) ==
    IF i > Len(expr.arguments) \/ i > Len(params) THEN [errs |-> errs, hang |-> FALSE]
    ELSE LET r == analyze_expr(a, expr.arguments[i])
         IN  IF r.hang THEN [errs |-> errs \o r.errs, hang |-> TRUE]
             ELSE IF IsNone(r.t) THEN CallArgsLoop(a, expr, params, i + 1, errs \o r.errs)
             ELSE LET c == Incompatible(a, params[i].type, The(r.t),
                             "Argument " \o ToString(i) \o " type mismatch: expected "
                               \o params[i].type.name \o ", got " \o The(r.t).name, expr)
                  IN  IF c.hang THEN [errs |-> errs \o r.errs, hang |-> TRUE]
                      ELSE CallArgsLoop(a, expr, params, i + 1, errs \o r.errs \o c.errs)

analyze_method_call(a, expr) ==
    LET member_expr == expr.callee
        o == analyze_expr(a, member_expr.obj)
    IN  IF o.hang \/ IsNone(o.t) THEN ER(None, o.errs, o.hang)
        ELSE
        LET obj_type == The(o.t)
            class_sym == DictGet(a.global_scope, obj_type.name)
        IN  IF IsNone(class_sym) \/ The(class_sym).sym # "class"
            THEN ER(None, Append(o.errs,
                      error("Type '" \o obj_type.name \o "' has no methods", expr)), FALSE)
            ELSE
            LET cs == The(class_sym)
                method_name == member_expr.member
                own == DictGet(cs.methods, method_name)
                base_sym == IF IsSome(cs.base_class)
                            THEN DictGet(a.global_scope, The(cs.base_class)) ELSE None
                method_sym ==
                    IF IsSome(own) THEN own
                    ELSE IF IsSome(base_sym) /\ The(base_sym).sym = "class"
                         THEN DictGet(The(base_sym).methods, method_name)
                         ELSE None
            IN  IF IsNone(method_sym)
                THEN ER(None, Append(o.errs,
                          error("Method '" \o method_name \o "' not found in class '"
                                  \o obj_type.name \o "'", expr)), FALSE)
                ELSE
                LET m == The(method_sym)
                    e1 == IF m.is_private /\ a.current_class # class_sym
                          THEN <<error("Cannot access private method '" \o method_name \o "'", expr)>>
                          ELSE <<>>
                    e2 == IF Len(expr.arguments) # Len(m.params)
                          THEN <<error("Method '" \o method_name \o "' expects "
                                         \o ToString(Len(m.params)) \o " arguments", expr)>>
                          ELSE <<>>
                IN  ER(m.return_type, o.errs \o e1 \o e2, FALSE)

analyze_call_expr(a, expr) ==
    IF expr.callee.node = "Identifier"
    THEN LET func_name == expr.callee.name
             symbol == lookup(a, func_name)
         IN  IF IsNone(symbol)
             THEN ER(None, <<error("Undefined function '" \o func_name \o "'", expr)>>, FALSE)
             ELSE IF The(symbol).sym # "func"
             THEN ER(None, <<error("'" \o func_name \o "' is not a function", expr)>>, FALSE)
             ELSE
             LET f == The(symbol)
                 e1 == IF Len(expr.arguments) # Len(f.params)
                       THEN <<error("Function '" \o func_name \o "' expects "
                                      \o ToString(Len(f.params)) \o " arguments, got "
                                      \o ToString(Len(expr.arguments)), expr)>>
                       ELSE <<>>
                 r == CallArgsLoop(a, expr, f.params, 1, e1)
             IN  ER(f.return_type, r.errs, r.hang)
    ELSE IF expr.callee.node = "MemberExpr" THEN analyze_method_call(a, expr)
    ELSE ER(None, <<>>, FALSE)

analyze_member_expr(a, expr) ==
    LET o == analyze_expr(a, expr.obj)
    IN  IF o.hang \/ IsNone(o.t) THEN ER(None, o.errs, o.hang)
        ELSE
        LET obj_type == The(o.t)
            class_sym == DictGet(a.global_scope, obj_type.name)
        IN  IF IsNone(class_sym) \/ The(class_sym).sym # "class"
            THEN ER(None, Append(o.errs,
                      error("Type '" \o obj_type.name \o "' has no members", expr)), FALSE)
            ELSE
            LET field_sym == DictGet(The(class_sym).fields, expr.member)
            IN  IF IsNone(field_sym)
                THEN ER(None, Append(o.errs,
                          error("Field '" \o expr.member \o "' not found in class '"
                                  \o obj_type.name \o "'", expr)), FALSE)
                ELSE IF The(field_sym).is_private /\ a.current_class # class_sym
                THEN ER(Some(The(field_sym).type_info), Append(o.errs,
                          error("Cannot access private field '" \o expr.member \o "'", expr)), FALSE)
                ELSE ER(Some(The(field_sym).type_info), o.errs, FALSE)

analyze_new_expr(a, expr) ==
    LET class_sym == DictGet(a.global_scope, expr.class_name)
    IN  IF IsNone(class_sym)
        THEN ER(None, <<error("Undefined class '" \o expr.class_name \o "'", expr)>>, FALSE)
        ELSE IF The(class_sym).sym # "class"
        THEN ER(None, <<error("'" \o expr.class_name \o "' is not a class", expr)>>, FALSE)
        ELSE
        LET constructor == DictGet(The(class_sym).methods, expr.class_name)
        IN  IF IsSome(constructor) /\ Len(expr.arguments) # Len(The(constructor).params)
            THEN ER(Some(TypeInfo(expr.class_name, FALSE)),
                    <<error("Constructor expects " \o ToString(Len(The(constructor).params))
                              \o " arguments", expr)>>, FALSE)
            ELSE ER(Some(TypeInfo(expr.class_name, FALSE)), <<>>, FALSE)

analyze_index_expr(a, expr) ==
    LET o == analyze_expr(a, expr.obj)
        i == IF o.hang THEN ER(None, <<>>, TRUE) ELSE analyze_expr(a, expr.index)
        errs == o.errs \o i.errs
    IN  IF o.hang \/ i.hang THEN ER(None, errs, TRUE)
        ELSE IF IsNone(o.t) THEN ER(None, errs, FALSE)
        ELSE IF ~The(o.t).is_array
        THEN ER(None, Append(errs,
                  error("Cannot index non-array type '" \o The(o.t).name \o "'", expr)), FALSE)
        ELSE IF IsSome(i.t) /\ The(i.t) # INT_TYPE
        THEN ER(Some(TypeInfo(The(o.t).name, FALSE)),
                Append(errs, error("Array index must be integer", expr)), FALSE)
        ELSE ER(Some(TypeInfo(The(o.t).name, FALSE)), errs, FALSE)

\* _analyze_expr
analyze_expr(a, expr) ==
    CASE expr.node = "IntLiteral" -> ER(Some(INT_TYPE), <<>>, FALSE)
      [] expr.node = "FloatLiteral" -> ER(Some(FLOAT_TYPE), <<>>, FALSE)
      [] expr.node = "StringLiteral" -> ER(Some(STRING_TYPE), <<>>, FALSE)
      [] expr.node = "CharLiteral" -> ER(Some(CHAR_TYPE), <<>>, FALSE)
      [] expr.node = "BoolLiteral" -> ER(Some(BOOL_TYPE), <<>>, FALSE)
      [] expr.node = "Identifier" -> analyze_identifier(a, expr)
      [] expr.node = "BinaryExpr" -> analyze_binary_expr(a, expr)
      [] expr.node = "UnaryExpr" -> analyze_unary_expr(a, expr)
      [] expr.node = "CallExpr" -> analyze_call_expr(a, expr)
      [] expr.node = "MemberExpr" -> analyze_member_expr(a, expr)
      [] expr.node = "NewExpr" -> analyze_new_expr(a, expr)
      [] expr.node = "IndexExpr" -> analyze_index_expr(a, expr)
      [] OTHER -> ER(None, <<>>, FALSE)

\* Result of analysing a statement: the analyzer afterwards, and whether the
\* analysis never returns
SR(a, hang) == [a |-> a, hang |-> hang]

AddErrors(a, errs) == [a EXCEPT !.errors = @ \o errs]

NoErrors == [errs |-> <<>>, hang |-> FALSE]

analyze_var_decl(a, stmt) ==
    IF IsSome(lookup_local(current_symbols(a), stmt.name))
    THEN SR(AddErrors(a, <<error("Variable '" \o stmt.name
                                   \o "' already defined in this scope", stmt)>>), FALSE)
    ELSE
    Bind(type_node_to_info(stmt.type_annotation), LAMBDA annotated:
    Bind(IF IsSome(stmt.initializer) THEN analyze_expr(a, The(stmt.initializer))
         ELSE ER(None, <<>>, FALSE), LAMBDA init:
    Bind(IF IsSome(annotated) /\ IsSome(init.t) /\ ~init.hang
         THEN Incompatible(a, The(annotated), The(init.t),
                "Type mismatch: cannot assign " \o The(init.t).name \o " to "
                  \o The(annotated).name, stmt)
         ELSE NoErrors, LAMBDA c:
    Bind(IF IsSome(annotated) THEN annotated ELSE init.t, LAMBDA var_type:
        SR(define_current(
               AddErrors(a, init.errs \o c.errs \o
                   (IF IsNone(var_type)
                    THEN <<error("Cannot infer type for variable '" \o stmt.name \o "'", stmt)>>
                    ELSE <<>>)),
               VarSymbol(stmt.name,
                         IF IsNone(var_type) THEN TypeInfo("unknown", FALSE) ELSE The(var_type),
                         FALSE)),
           init.hang \/ c.hang)))))

analyze_assignment(a, stmt) ==
    Bind(analyze_expr(a, stmt.target), LAMBDA t:
    Bind(IF t.hang THEN ER(None, <<>>, TRUE) ELSE analyze_expr(a, stmt.value), LAMBDA v:
    Bind(IF v.hang \/ IsNone(t.t) \/ IsNone(v.t) THEN NoErrors
         ELSE IF stmt.op # "ASSIGN"
         THEN [errs |-> IF ~is_numeric(The(t.t)) \/ ~is_numeric(The(v.t))
                        THEN <<error("Compound assignment requires numeric types", stmt)>>
                        ELSE <<>>,
               hang |-> FALSE]
         ELSE Incompatible(a, The(t.t), The(v.t),
                "Type mismatch in assignment: " \o The(v.t).name \o " to "
                  \o The(t.t).name, stmt), LAMBDA c:
        SR(AddErrors(a, t.errs \o v.errs \o c.errs), v.hang \/ c.hang))))

analyze_return_stmt(a, stmt) ==
    IF IsNone(a.current_function)
    THEN SR(AddErrors(a, <<error("'return' outside of function", stmt)>>), FALSE)
    ELSE
    Bind(The(a.current_function).return_type, LAMBDA expected_type:
        IF IsSome(stmt.value)
        THEN Bind(analyze_expr(a, The(stmt.value)), LAMBDA r:
             Bind(IF IsSome(expected_type) /\ IsSome(r.t) /\ ~r.hang
                  THEN Incompatible(a, The(expected_type), The(r.t),
                         "Return type mismatch: expected " \o The(expected_type).name
                           \o ", got " \o The(r.t).name, stmt)
                  ELSE NoErrors, LAMBDA c:
                SR(AddErrors(a, r.errs \o c.errs), r.hang \/ c.hang)))
        ELSE IF IsSome(expected_type) /\ The(expected_type) # VOID_TYPE
        THEN SR(AddErrors(a, <<error("Expected return value of type "
                                       \o The(expected_type).name, stmt)>>), FALSE)
        ELSE SR(a, FALSE))

\* the BreakStmt and ContinueStmt branches of _analyze_stmt
analyze_jump(a, stmt, word) ==
    IF a.loop_depth = 0
    THEN SR(AddErrors(a, <<error("'" \o word \o "' outside of loop", stmt)>>), FALSE)
    ELSE SR(a, FALSE)

SimpleStmts == {"VarDecl", "Assignment", "ReturnStmt", "BreakStmt", "ContinueStmt", "ExprStmt"}

\* _analyze_stmt on a statement that holds no nested statement list
analyze_simple_stmt(a, stmt) ==
    CASE stmt.node = "VarDecl" -> analyze_var_decl(a, stmt)
      [] stmt.node = "Assignment" -> analyze_assignment(a, stmt)
      [] stmt.node = "ReturnStmt" -> analyze_return_stmt(a, stmt)
      [] stmt.node = "BreakStmt" -> analyze_jump(a, stmt, "break")
      [] stmt.node = "ContinueStmt" -> analyze_jump(a, stmt, "continue")
      [] stmt.node = "ExprStmt" ->
            Bind(analyze_expr(a, stmt.expr), LAMBDA r: SR(AddErrors(a, r.errs), r.hang))
      [] OTHER -> SR(a, FALSE)

\* the condition check shared by _analyze_if_stmt, _analyze_while_stmt and
\* _analyze_for_stmt
analyze_condition(a, condition, stmt) ==
    Bind(analyze_expr(a, condition), LAMBDA r:
        SR(AddErrors(a,
               IF IsSome(r.t) /\ The(r.t) # BOOL_TYPE /\ ~is_numeric(The(r.t))
               THEN Append(r.errs,
                      error("Condition must be a boolean or numeric expression", stmt))
               ELSE r.errs),
           r.hang))


Params(decl) ==
    [i \in 1..Len(decl.params) |->
        [name |-> decl.params[i].name,
         type |-> TypeInfo(decl.params[i].type_annotation.name,
                           decl.params[i].type_annotation.is_array)]]

RECURSIVE RegisterFields(_, _)
RegisterFields(fields, dict) ==
    IF Len(fields) = 0 THEN dict
    ELSE RegisterFields(Tail(fields),
            DictSet(dict, VarSymbol(Head(fields).name,
                                    TypeInfo(Head(fields).type_annotation.name,
                                             Head(fields).type_annotation.is_array),
                                    Head(fields).is_private)))

RECURSIVE RegisterMethods(_, _)
RegisterMethods(methods, dict) ==
    IF Len(methods) = 0 THEN dict
    ELSE RegisterMethods(Tail(methods),
            DictSet(dict, FuncSymbol(Head(methods).name, Params(Head(methods)),
                                     type_node_to_info(Head(methods).return_type),
                                     Head(methods).is_private, Head(methods).is_override,
                                     TRUE)))

register_class(a, cls) ==
    IF IsSome(lookup_local(a.global_scope, cls.name))
    THEN AddErrors(a, <<error("Class '" \o cls.name \o "' already defined", cls)>>)
    ELSE [a EXCEPT !.global_scope =
            define(@, ClassSymbol(cls.name, cls.base_class,
                                  RegisterFields(cls.fields, <<>>),
                                  RegisterMethods(cls.methods, <<>>)))]

register_function(a, func) ==
    IF IsSome(lookup_local(a.global_scope, func.name))
    THEN AddErrors(a, <<error("Function '" \o func.name \o "' already defined", func)>>)
    ELSE [a EXCEPT !.global_scope =
            define(@, FuncSymbol(func.name, Params(func),
                                 type_node_to_info(func.return_type),
                                 func.is_private, FALSE, FALSE))]

\* `for param in params: self.current_scope.define(VarSymbol(param.name, ...))`
RECURSIVE DefineParams(_, _)
DefineParams(a, params) ==
    IF Len(params) = 0 THEN a
    ELSE DefineParams(define_current(a, VarSymbol(Head(params).name, Head(params).type, FALSE)),
                      Tail(params))

\* `if method.body:` - a body that is absent or an empty list is falsy
HasBody(decl) == IsSome(decl.body) /\ Len(The(decl.body)) > 0

\* `main_sym = self.global_scope.lookup("main")`;
\* `not main_sym or not isinstance(main_sym, FuncSymbol)`
\* a check that asks only whether the name main is bound
main_missing_unbound(a) == IsNone(DictGet(a.global_scope, "main"))

main_missing(a) ==
    LET main_sym == DictGet(a.global_scope, "main")
    IN  IsNone(main_sym) \/ The(main_sym).sym # "func"

NoMainError == SemanticError("No 'main' function defined", 0, 0)

(***************************************************************************)
(* analyze(program) as a step machine.  pc is the position in             *)
(* SemanticAnalyzer.analyze: the pass (phase) and the index of the class   *)
(* (ci), method (mi) or function (fi) it is at.  kont is the stack of      *)
(* statement lists being walked by the `for stmt in ...` loops of the      *)
(* analyzer, innermost last; a frame holds the list, the index of the next *)
(* statement and the declaration or statement the list belongs to.         *)
(***************************************************************************)
Pc(phase, ci, mi, fi) == [phase |-> phase, ci |-> ci, mi |-> mi, fi |-> fi]

Frame(kind, stmts, owner) == [kind |-> kind, stmts |-> stmts, i |-> 1, owner |-> owner]

\* where analyze() continues after each of its four loops
AfterClassBodies(program) ==
    IF Len(program.functions) > 0 THEN Pc("analyze_function", 0, 0, 1)
    ELSE Pc("check_main", 0, 0, 0)

AfterRegisterFunctions(program) ==
    IF Len(program.classes) > 0 THEN Pc("analyze_class", 1, 0, 0)
    ELSE AfterClassBodies(program)

AfterRegisterClasses(program) ==
    IF Len(program.functions) > 0 THEN Pc("register_function", 0, 0, 1)
    ELSE AfterRegisterFunctions(program)

StartAnalyze(program) ==
    IF Len(program.classes) > 0 THEN Pc("register_class", 1, 0, 0)
    ELSE AfterRegisterClasses(program)

NextClass(program, ci) ==
    IF ci < Len(program.classes) THEN Pc("analyze_class", ci + 1, 0, 0)
    ELSE AfterClassBodies(program)

NextFunction(program, fi) ==
    IF fi < Len(program.functions) THEN Pc("analyze_function", 0, 0, fi + 1)
    ELSE Pc("check_main", 0, 0, 0)

Hung == Pc("hang", 0, 0, 0)

\* st = [an, kont, pc] is the analyzer with its position in analyze()
Top(st) == st.kont[Len(st.kont)]

CurStmt(st) == Top(st).stmts[Top(st).i]

\* the frame stack once the current statement of the innermost list is done
Stepped(st) == [st.kont EXCEPT ![Len(st.kont)].i = @ + 1]

Popped(st) == SubSeq(st.kont, 1, Len(st.kont) - 1)

\* a statement result r taken as the analyzer's next state: a comparison of
\* types that never returns leaves the analyzer hung
Continue(st, r, k) == [an |-> r.a, kont |-> k, pc |-> IF r.hang THEN Hung ELSE st.pc]

\* the step of analyze() that the analyzer at st takes next
step(program, st) ==
    CASE st.pc.phase = "register_class" -> "RegisterClass"
      [] st.pc.phase = "register_function" -> "RegisterFunction"
      [] st.pc.phase = "analyze_class" -> "AnalyzeClass"
      [] st.pc.phase = "methods" ->
            IF st.pc.mi <= Len(program.classes[st.pc.ci].methods)
            THEN "AnalyzeMethod" ELSE "ExitClass"
      [] st.pc.phase = "analyze_function" -> "AnalyzeFunction"
      [] st.pc.phase = "body" ->
           (IF Top(st).i <= Len(Top(st).stmts)
            THEN CASE CurStmt(st).node \in SimpleStmts -> "AnalyzeStmt"
                   [] CurStmt(st).node = "IfStmt" -> "AnalyzeIfStmt"
                   [] CurStmt(st).node = "WhileStmt" -> "AnalyzeWhileStmt"
                   [] CurStmt(st).node = "ForStmt" -> "AnalyzeForStmt"
                   [] CurStmt(st).node = "Block" -> "AnalyzeBlock"
            ELSE CASE Top(st).kind = "method" -> "ExitMethod"
                   [] Top(st).kind = "function" -> "ExitFunction"
                   [] Top(st).kind = "then" -> "ExitThen"
                   [] Top(st).kind = "else" -> "ExitElse"
                   [] Top(st).kind = "while" -> "ExitWhile"
                   [] Top(st).kind = "for" -> "ExitFor"
                   [] Top(st).kind = "block" -> "ExitBlock")
      [] st.pc.phase = "check_main" -> "CheckMain"
      [] OTHER -> "none"

\* first pass, `for cls in program.classes: self._register_class(cls)`
RegisterClassStep(program, st) ==
    [st EXCEPT !.an = register_class(st.an, program.classes[st.pc.ci]),
               !.pc = IF st.pc.ci < Len(program.classes)
                      THEN Pc("register_class", st.pc.ci + 1, 0, 0)
                      ELSE AfterRegisterClasses(program)]

\* first pass, `for func in program.functions: self._register_function(func)`
RegisterFunctionStep(program, st) ==
    [st EXCEPT !.an = register_function(st.an, program.functions[st.pc.fi]),
               !.pc = IF st.pc.fi < Len(program.functions)
                      THEN Pc("register_function", 0, 0, st.pc.fi + 1)
                      ELSE AfterRegisterFunctions(program)]

\* _analyze_class up to its method loop
AnalyzeClassStep(program, st) ==
    LET cls == program.classes[st.pc.ci]
        class_sym == DictGet(st.an.global_scope, cls.name)
    IN  IF IsNone(class_sym) \/ The(class_sym).sym # "class"
        THEN [st EXCEPT !.pc = NextClass(program, st.pc.ci)]
        ELSE LET base == IF IsSome(cls.base_class)
                         THEN DictGet(st.an.global_scope, The(cls.base_class)) ELSE None
                 errs == IF IsSome(cls.base_class)
                            /\ (IsNone(base) \/ The(base).sym # "class")
                         THEN <<error("Base class '" \o The(cls.base_class)
                                        \o "' not found", cls)>>
                         ELSE <<>>
             IN  [st EXCEPT !.an = [AddErrors(st.an, errs) EXCEPT !.current_class = class_sym],
                            !.pc = Pc("methods", st.pc.ci, 1, 0)]

\* one turn of `for method in cls.methods: if method.body: _analyze_method`,
\* up to the statement loop of _analyze_method
AnalyzeMethodStep(program, st) ==
    LET method == program.classes[st.pc.ci].methods[st.pc.mi]
        class_sym == The(st.an.current_class)
        a1 == define_current(enter_scope(st.an),
                             VarSymbol("this", TypeInfo(class_sym.name, FALSE), FALSE))
        a2 == DefineParams(a1, Params(method))
    IN  IF HasBody(method)
        THEN [an |-> [a2 EXCEPT !.current_function = DictGet(class_sym.methods, method.name)],
              kont |-> <<Frame("method", The(method.body), method)>>,
              pc |-> [st.pc EXCEPT !.phase = "body"]]
        ELSE [st EXCEPT !.pc.mi = @ + 1]

\* the end of _analyze_method
ExitMethodStep(program, st) ==
    [an |-> exit_scope([st.an EXCEPT !.current_function = None]),
     kont |-> Popped(st),
     pc |-> [st.pc EXCEPT !.phase = "methods", !.mi = @ + 1]]

\* the end of _analyze_class
ExitClassStep(program, st) ==
    [st EXCEPT !.an.current_class = None, !.pc = NextClass(program, st.pc.ci)]

\* _analyze_function up to its statement loop
AnalyzeFunctionStep(program, st) ==
    LET func == program.functions[st.pc.fi]
        func_sym == DictGet(st.an.global_scope, func.name)
    IN  IF ~HasBody(func) \/ IsNone(func_sym) \/ The(func_sym).sym # "func"
        THEN [st EXCEPT !.pc = NextFunction(program, st.pc.fi)]
        ELSE [an |-> DefineParams(enter_scope([st.an EXCEPT !.current_function = func_sym]),
                                  Params(func)),
              kont |-> <<Frame("function", The(func.body), func)>>,
              pc |-> [st.pc EXCEPT !.phase = "body"]]

\* the end of _analyze_function
ExitFunctionStep(program, st) ==
    [an |-> [exit_scope(st.an) EXCEPT !.current_function = None],
     kont |-> Popped(st),
     pc |-> NextFunction(program, st.pc.fi)]

\* _analyze_stmt on a VarDecl, Assignment, ReturnStmt, BreakStmt,
\* ContinueStmt or ExprStmt
AnalyzeStmtStep(program, st) ==
    Continue(st, analyze_simple_stmt(st.an, CurStmt(st)), Stepped(st))

\* a statement result with a scope entered for the statements that follow
Entered(r) == SR(enter_scope(r.a), r.hang)

\* a statement result with the loop body entered: self.loop_depth += 1
InLoop(r) == SR([r.a EXCEPT !.loop_depth = @ + 1], r.hang)

\* _analyze_if_stmt up to the loop over then_branch
AnalyzeIfStmtStep(program, st) ==
    Continue(st, Entered(analyze_condition(st.an, CurStmt(st).condition, CurStmt(st))),
             Append(Stepped(st), Frame("then", CurStmt(st).then_branch, CurStmt(st))))

\* _analyze_if_stmt after the loop over then_branch
ExitThenStep(program, st) ==
    LET stmt == Top(st).owner
    IN  IF IsSome(stmt.else_branch) /\ Len(The(stmt.else_branch)) > 0
        THEN [st EXCEPT !.an = enter_scope(exit_scope(st.an)),
                        !.kont = Append(Popped(st), Frame("else", The(stmt.else_branch), stmt))]
        ELSE [st EXCEPT !.an = exit_scope(st.an), !.kont = Popped(st)]

\* the end of a scoped statement list: _analyze_if_stmt after the loop over
\* else_branch, the Block branch of _analyze_stmt after its loop
ExitScopeStep(program, st) ==
    [st EXCEPT !.an = exit_scope(st.an), !.kont = Popped(st)]

\* _analyze_while_stmt up to the loop over the body
AnalyzeWhileStmtStep(program, st) ==
    Continue(st, Entered(InLoop(analyze_condition(st.an, CurStmt(st).condition, CurStmt(st)))),
             Append(Stepped(st), Frame("while", CurStmt(st).body, CurStmt(st))))

\* _analyze_while_stmt after the loop over the body
ExitWhileStep(program, st) ==
    [st EXCEPT !.an = [exit_scope(st.an) EXCEPT !.loop_depth = @ - 1], !.kont = Popped(st)]

\* the init and the condition of a for statement, analysed in its scope
ForHeader(a, stmt) ==
    Bind(IF IsSome(stmt.init) THEN analyze_simple_stmt(enter_scope(a), The(stmt.init))
         ELSE SR(enter_scope(a), FALSE), LAMBDA i:
        IF IsSome(stmt.condition) /\ ~i.hang
        THEN analyze_condition(i.a, The(stmt.condition), stmt)
        ELSE i)

\* _analyze_for_stmt up to the loop over the body
AnalyzeForStmtStep(program, st) ==
    Continue(st, InLoop(ForHeader(st.an, CurStmt(st))),
             Append(Stepped(st), Frame("for", CurStmt(st).body, CurStmt(st))))

\* the update of a for statement and the exit from its scope
ForUpdate(a, stmt) ==
    Bind(IF IsSome(stmt.update) THEN analyze_simple_stmt(a, The(stmt.update))
         ELSE SR(a, FALSE), LAMBDA u: SR(exit_scope(u.a), u.hang))

\* _analyze_for_stmt after the loop over the body
ExitForStep(program, st) ==
    Continue(st, ForUpdate([st.an EXCEPT !.loop_depth = @ - 1], Top(st).owner), Popped(st))

\* the Block branch of _analyze_stmt up to its loop
AnalyzeBlockStep(program, st) ==
    [st EXCEPT !.an = enter_scope(st.an),
               !.kont = Append(Stepped(st), Frame("block", CurStmt(st).statements, CurStmt(st)))]

\* the main check of analyze() and its return
CheckMainStep(program, st) ==
    [st EXCEPT !.an = IF main_missing(st.an) THEN AddErrors(st.an, <<NoMainError>>) ELSE st.an,
               !.pc = Pc("done", 0, 0, 0)]

\* the analyzer after the step it takes next
analyze_step(program, st) ==
    CASE step(program, st) = "RegisterClass" -> RegisterClassStep(program, st)
      [] step(program, st) = "RegisterFunction" -> RegisterFunctionStep(program, st)
      [] step(program, st) = "AnalyzeClass" -> AnalyzeClassStep(program, st)
      [] step(program, st) = "AnalyzeMethod" -> AnalyzeMethodStep(program, st)
      [] step(program, st) = "ExitMethod" -> ExitMethodStep(program, st)
      [] step(program, st) = "ExitClass" -> ExitClassStep(program, st)
      [] step(program, st) = "AnalyzeFunction" -> AnalyzeFunctionStep(program, st)
      [] step(program, st) = "ExitFunction" -> ExitFunctionStep(program, st)
      [] step(program, st) = "AnalyzeStmt" -> AnalyzeStmtStep(program, st)
      [] step(program, st) = "AnalyzeIfStmt" -> AnalyzeIfStmtStep(program, st)
      [] step(program, st) = "ExitThen" -> ExitThenStep(program, st)
      [] step(program, st) \in {"ExitElse", "ExitBlock"} -> ExitScopeStep(program, st)
      [] step(program, st) = "AnalyzeWhileStmt" -> AnalyzeWhileStmtStep(program, st)
      [] step(program, st) = "ExitWhile" -> ExitWhileStep(program, st)
      [] step(program, st) = "AnalyzeForStmt" -> AnalyzeForStmtStep(program, st)
      [] step(program, st) = "ExitFor" -> ExitForStep(program, st)
      [] step(program, st) = "AnalyzeBlock" -> AnalyzeBlockStep(program, st)
      [] step(program, st) = "CheckMain" -> CheckMainStep(program, st)

\* SemanticAnalyzer(): the analyzer about to analyse program
StartState(program) == [an |-> NewAnalyzer, kont |-> <<>>, pc |-> StartAnalyze(program)]

\* analyze(program): the analyzer when analyze() returns (pc.phase = "done",
\* the diagnostics being an.errors) or is stuck in a comparison of types
\* that never returns (pc.phase = "hang")
RECURSIVE Run(_, _)
Run(program, st) ==
    IF step(program, st) = "none" THEN st ELSE Run(program, analyze_step(program, st))

analyze(program) == Run(program, StartState(program))

\* the analyzer's variables
St == [an |-> an, kont |-> kont, pc |-> pc]

\* the analyzer moves to st
Moves(st) ==
    /\ an' = st.an /\ kont' = st.kont /\ pc' = st.pc
    /\ UNCHANGED <<source, lexer, tokens, comp, ast, ccode, generator, call>>

RegisterClass == step(ast, St) = "RegisterClass" /\ Moves(RegisterClassStep(ast, St))

RegisterFunction == step(ast, St) = "RegisterFunction" /\ Moves(RegisterFunctionStep(ast, St))

AnalyzeClass == step(ast, St) = "AnalyzeClass" /\ Moves(AnalyzeClassStep(ast, St))

AnalyzeMethod == step(ast, St) = "AnalyzeMethod" /\ Moves(AnalyzeMethodStep(ast, St))

ExitMethod == step(ast, St) = "ExitMethod" /\ Moves(ExitMethodStep(ast, St))

ExitClass == step(ast, St) = "ExitClass" /\ Moves(ExitClassStep(ast, St))

AnalyzeFunction == step(ast, St) = "AnalyzeFunction" /\ Moves(AnalyzeFunctionStep(ast, St))

ExitFunction == step(ast, St) = "ExitFunction" /\ Moves(ExitFunctionStep(ast, St))

AnalyzeStmt == step(ast, St) = "AnalyzeStmt" /\ Moves(AnalyzeStmtStep(ast, St))

AnalyzeIfStmt == step(ast, St) = "AnalyzeIfStmt" /\ Moves(AnalyzeIfStmtStep(ast, St))

ExitThen == step(ast, St) = "ExitThen" /\ Moves(ExitThenStep(ast, St))

ExitElse == step(ast, St) = "ExitElse" /\ Moves(ExitScopeStep(ast, St))

AnalyzeWhileStmt == step(ast, St) = "AnalyzeWhileStmt" /\ Moves(AnalyzeWhileStmtStep(ast, St))

ExitWhile == step(ast, St) = "ExitWhile" /\ Moves(ExitWhileStep(ast, St))

AnalyzeForStmt == step(ast, St) = "AnalyzeForStmt" /\ Moves(AnalyzeForStmtStep(ast, St))

ExitFor == step(ast, St) = "ExitFor" /\ Moves(ExitForStep(ast, St))

AnalyzeBlock == step(ast, St) = "AnalyzeBlock" /\ Moves(AnalyzeBlockStep(ast, St))

ExitBlock == step(ast, St) = "ExitBlock" /\ Moves(ExitScopeStep(ast, St))

CheckMain == step(ast, St) = "CheckMain" /\ Moves(CheckMainStep(ast, St))

NextAnalyze ==
    \/ RegisterClass \/ RegisterFunction
    \/ AnalyzeClass \/ AnalyzeMethod \/ ExitMethod \/ ExitClass
    \/ AnalyzeFunction \/ ExitFunction
    \/ AnalyzeStmt
    \/ AnalyzeIfStmt \/ ExitThen \/ ExitElse
    \/ AnalyzeWhileStmt \/ ExitWhile
    \/ AnalyzeForStmt \/ ExitFor
    \/ AnalyzeBlock \/ ExitBlock
    \/ CheckMain

(***************************************************************************)
(* Code generator, expressions  (src/compiler/codegen/generator.py)        *)
(***************************************************************************)
\* str(expr.value) of a FloatLiteral whose repr is positional (a value in
\* [1e-4, 1e16) with at most 15 significant digits, or zero)
FloatStr(v) == ToString(v.ip) \o "." \o (IF v.fr = "" THEN "0" ELSE v.fr)

op_map(op) ==
    CASE op = "ADD" -> "+"   [] op = "SUB" -> "-"   [] op = "MUL" -> "*"
      [] op = "DIV" -> "/"   [] op = "MOD" -> "%"   [] op = "EQ" -> "=="
      [] op = "NEQ" -> "!="  [] op = "LT" -> "<"    [] op = "LEQ" -> "<="
      [] op = "GT" -> ">"    [] op = "GEQ" -> ">="  [] op = "AND" -> "&&"
      [] op = "OR" -> "||"   [] OTHER -> "?"

RECURSIVE generate_expr(_)

\* ", ".join(self._generate_expr(arg) for arg in arguments)
RECURSIVE JoinArgs(_)
JoinArgs(arguments) ==
    IF Len(arguments) = 0 THEN ""
    ELSE IF Len(arguments) = 1 THEN generate_expr(arguments[1])
    ELSE generate_expr(Head(arguments)) \o ", " \o JoinArgs(Tail(arguments))

generate_binary_expr(expr) ==
    "(" \o generate_expr(expr.left) \o " " \o op_map(expr.op) \o " "
        \o generate_expr(expr.right) \o ")"

generate_unary_expr(expr) ==
    IF expr.op = "NEG" THEN "(-" \o generate_expr(expr.operand) \o ")"
    ELSE IF expr.op = "NOT" THEN "(!" \o generate_expr(expr.operand) \o ")"
    ELSE generate_expr(expr.operand)

generate_call_expr(expr) ==
    LET args == JoinArgs(expr.arguments)
    IN  IF expr.callee.node = "Identifier"
        THEN LET func_name == expr.callee.name
             IN  IF func_name = "print"
                 THEN IF Len(expr.arguments) > 0
                      THEN IF expr.arguments[1].node = "IntLiteral"
                           THEN "printf(\"%d\\n\", " \o generate_expr(expr.arguments[1]) \o ")"
                           ELSE "printf(\"%s\\n\", " \o generate_expr(expr.arguments[1]) \o ")"
                      ELSE "printf(\"\\n\")"
                 ELSE IF func_name = "read"
                 THEN IF Len(expr.arguments) > 0
                      THEN "scanf(\"%d\", &" \o generate_expr(expr.arguments[1]) \o ")"
                      ELSE "scanf(\"%d\", &__dummy)"
                 ELSE func_name \o "(" \o args \o ")"
        ELSE IF expr.callee.node = "MemberExpr"
        THEN LET obj == generate_expr(expr.callee.obj)
             IN  obj \o "->__vtable->" \o expr.callee.member \o "(" \o obj
                     \o (IF args # "" THEN ", " \o args ELSE "") \o ")"
        ELSE "/* unknown call */"

\* _generate_expr
generate_expr(expr) ==
    CASE expr.node = "IntLiteral" -> ToString(expr.value)
      [] expr.node = "FloatLiteral" -> FloatStr(expr.value)
      [] expr.node \in {"StringLiteral", "CharLiteral"} -> expr.value
      [] expr.node = "BoolLiteral" -> IF expr.value THEN "true" ELSE "false"
      [] expr.node = "Identifier" -> expr.name
      [] expr.node = "BinaryExpr" -> generate_binary_expr(expr)
      [] expr.node = "UnaryExpr" -> generate_unary_expr(expr)
      [] expr.node = "CallExpr" -> generate_call_expr(expr)
      [] expr.node = "MemberExpr" -> generate_expr(expr.obj) \o "->" \o expr.member
      [] expr.node = "NewExpr" -> expr.class_name \o "_new(" \o JoinArgs(expr.arguments) \o ")"
      [] expr.node = "IndexExpr" ->
            generate_expr(expr.obj) \o "[" \o generate_expr(expr.index) \o "]"
      [] OTHER -> "/* unknown expr */"

(***************************************************************************)
(* SpecExpr: an expression text is lexed, parsed by parse_expression and   *)
(* emitted by _generate_expr.                                              *)
(***************************************************************************)
ExprOperands == {"a", "b", "1"}

ExprOperators == {"+", "-", "*", "/", "%", "==", "!=", "<", "<=", ">", ">=", "&&", "||"}

ExprPrefixes == {"", "-", "!"}

\* x op y with an optional unary prefix, a op1 b op2 c, and two unary
\* operators in front of the first operand
ExprSources ==
    {u \o x \o " " \o o \o " " \o y :
        u \in ExprPrefixes, x \in ExprOperands, o \in ExprOperators, y \in ExprOperands}
    \cup {"a " \o o1 \o " b " \o o2 \o " c" : o1 \in ExprOperators, o2 \in ExprOperators}
    \cup {u1 \o u2 \o "a " \o o \o " b" :
            u1 \in ExprPrefixes \ {""}, u2 \in ExprPrefixes \ {""}, o \in ExprOperators}

InitExpr ==
    /\ source \in ExprSources
    /\ pc = "lex"
    /\ tokens = <<>>
    /\ ast = None
    /\ ccode = None
    /\ lexer = NewLexer /\ comp = None /\ an = None /\ kont = <<>>
    /\ generator = None
    /\ call = None

\* the loop `while not (tok := l.lex()).eof()` with the EOF token kept
LexExpr ==
    /\ pc = "lex"
    /\ tokens' = LexAll(source)
    /\ pc' = "parse"
    /\ UNCHANGED <<source, lexer, comp, ast, an, kont, ccode, generator, call>>

\* Parser(Lexer(source)).parse_expression()
ParseExpr ==
    /\ pc = "parse"
    /\ LET r == parse_expression(source, NewParser(source))
       IN  /\ ast' = IF r.ok THEN Some(r.val) ELSE None
           /\ pc' = IF r.ok THEN "generate" ELSE "raised"
    /\ UNCHANGED <<source, lexer, tokens, comp, an, kont, ccode, generator, call>>

\* CodeGenerator()._generate_expr(expr)
GenerateExpr ==
    /\ pc = "generate"
    /\ ccode' = Some(generate_expr(The(ast)))
    /\ pc' = "done"
    /\ UNCHANGED <<source, lexer, tokens, comp, ast, an, kont, generator, call>>

NextExpr == LexExpr \/ ParseExpr \/ GenerateExpr

SpecExpr == InitExpr /\ [][NextExpr]_vars

(***************************************************************************)
(* SpecLex: a caller that keeps calling Lexer.lex() on one Lexer, as the   *)
(* loops of compiler.py (lines 50-61) and lexer.py (line 319) do.          *)
(***************************************************************************)
LexAlphabet == {"a", "1", "/", "\n", "\"", "'", "\\", "|", "&", " ", "."}

\* every string over LexAlphabet of length at most n
RECURSIVE Strings(_)
Strings(n) ==
    IF n = 0 THEN {""}
    ELSE LET S == Strings(n - 1) IN S \cup {s \o c : s \in S, c \in LexAlphabet}

EofCalls == Cardinality({i \in 1..Len(tokens) : tokens[i].kind = "EOF"})

InitLex ==
    /\ source \in Strings(MaxLexLen)
    /\ lexer = NewLexer
    /\ tokens = <<>>
    /\ pc = "lex"
    /\ comp = None /\ ast = None /\ an = None /\ kont = <<>> /\ ccode = None
    /\ generator = None
    /\ call = None

\* tok = lexer.lex(); tokens.append(tok)
LexCall ==
    /\ pc = "lex"
    /\ EofCalls < MaxEofCalls
    /\ LET r == lex(source, lexer)
       IN  /\ lexer' = r.lx
           /\ tokens' = Append(tokens, r.tok)
    /\ UNCHANGED <<source, pc, comp, ast, an, kont, ccode, generator, call>>

NextLex == LexCall

SpecLex == InitLex /\ [][NextLex]_vars

\* the caller does call again: a loop around lex() is never suspended
SpecLexFair == SpecLex /\ WF_vars(LexCall)
(***************************************************************************)
(* Code generator, translation unit  (src/compiler/codegen/generator.py)   *)
(*                                                                         *)
(* g is the CodeGenerator: g.output the lines emitted so far,              *)
(* g.indent_level, and g.class_info the dict from class name to ClassDecl, *)
(* kept in insertion order.  An operation that can raise returns           *)
(* [g, raised]: the generator it leaves behind and the exception, if any.  *)
(***************************************************************************)
\* "\n".join(self.output), the list being joined half by half
RECURSIVE JoinLines(_)
JoinLines(output) ==
    IF Len(output) = 0 THEN ""
    ELSE IF Len(output) = 1 THEN output[1]
         ELSE JoinLines(SubSeq(output, 1, Len(output) \div 2)) \o "\n"
                  \o JoinLines(SubSeq(output, Len(output) \div 2 + 1, Len(output)))

\* CodeGenerator.__init__
NewGenerator == [output |-> <<>>, indent_level |-> 0, class_info |-> <<>>]

\* "    " * n
RECURSIVE Spaces(_)
Spaces(n) == IF n <= 0 THEN "" ELSE "    " \o Spaces(n - 1)

emit(g, line) ==
    [g EXCEPT !.output =
        Append(@, IF line # "" THEN Spaces(g.indent_level) \o line ELSE "")]

\* self.indent_level += d
Indent(g, d) == [g EXCEPT !.indent_level = @ + d]

type_map(name) ==
    CASE name = "int" -> Some("int")       [] name = "float" -> Some("double")
      [] name = "bool" -> Some("bool")     [] name = "char" -> Some("char")
      [] name = "string" -> Some("const char*")
      [] name = "void" -> Some("void")     [] OTHER -> None

\* _type_to_c of an Optional[TypeNode]
type_to_c(type_node) ==
    IF IsNone(type_node) THEN "void"
    ELSE LET base_type == IF IsSome(type_map(The(type_node).name))
                          THEN The(type_map(The(type_node).name))
                          ELSE The(type_node).name \o "*"
         IN  IF The(type_node).is_array THEN base_type \o "*" ELSE base_type

\* _infer_c_type of an Optional[Expr]
infer_c_type(expr) ==
    IF IsNone(expr) THEN "int"
    ELSE CASE The(expr).node = "IntLiteral" -> "int"
           [] The(expr).node = "FloatLiteral" -> "double"
           [] The(expr).node = "StringLiteral" -> "const char*"
           [] The(expr).node = "CharLiteral" -> "char"
           [] The(expr).node = "BoolLiteral" -> "bool"
           [] The(expr).node = "NewExpr" -> The(expr).class_name \o "*"
           [] OTHER -> "int"

\* ", ".join(parts)
RECURSIVE JoinParts(_)
JoinParts(parts) ==
    IF Len(parts) = 0 THEN ""
    ELSE IF Len(parts) = 1 THEN parts[1]
         ELSE parts[1] \o ", " \o JoinParts(Tail(parts))

\* f"{c_type} {param.name}" for each parameter
ParamParts(params) ==
    [k \in DOMAIN params |->
        type_to_c(Some(params[k].type_annotation)) \o " " \o params[k].name]

params_to_c(params) ==
    IF Len(params) = 0 THEN "void" ELSE JoinParts(ParamParts(params))

params_to_c_with_self(class_name, params) ==
    IF Len(params) = 0 THEN class_name \o "* self"
    ELSE JoinParts(<<class_name \o "* self">> \o ParamParts(params))

\* ret_type = self._type_to_c(t) if t else "void"
RetType(return_type) == IF IsSome(return_type) THEN type_to_c(return_type) ELSE "void"

assign_op_map(op) ==
    CASE op = "ASSIGN" -> "="       [] op = "ADD_ASSIGN" -> "+="
      [] op = "SUB_ASSIGN" -> "-="  [] op = "MUL_ASSIGN" -> "*="
      [] op = "DIV_ASSIGN" -> "/="  [] op = "MOD_ASSIGN" -> "%="

generate_var_decl(g, stmt) ==
    LET c_type == IF IsSome(stmt.type_annotation) THEN type_to_c(stmt.type_annotation)
                  ELSE infer_c_type(stmt.initializer)
    IN  IF IsSome(stmt.initializer)
        THEN emit(g, c_type \o " " \o stmt.name \o " = "
                        \o generate_expr(The(stmt.initializer)) \o ";")
        ELSE emit(g, c_type \o " " \o stmt.name \o ";")

generate_assignment(g, stmt) ==
    emit(g, generate_expr(stmt.target) \o " " \o assign_op_map(stmt.op) \o " "
                \o generate_expr(stmt.value) \o ";")

generate_return_stmt(g, stmt) ==
    IF IsSome(stmt.value) THEN emit(g, "return " \o generate_expr(The(stmt.value)) \o ";")
    ELSE emit(g, "return;")

RECURSIVE generate_stmt(_, _)

\* for s in stmts: self._generate_stmt(s)
RECURSIVE generate_stmts(_, _)
generate_stmts(g, stmts) ==
    IF Len(stmts) = 0 THEN g
    ELSE generate_stmts(generate_stmt(g, Head(stmts)), Tail(stmts))

\* if stmt.else_branch: a list that is present and not empty
generate_if_stmt(g, stmt) ==
    LET g1 == emit(g, "if (" \o generate_expr(stmt.condition) \o ") {")
        g2 == Indent(generate_stmts(Indent(g1, 1), stmt.then_branch), -1)
        g3 == IF IsSome(stmt.else_branch) /\ Len(The(stmt.else_branch)) > 0
              THEN Indent(generate_stmts(Indent(emit(g2, "} else {"), 1),
                                         The(stmt.else_branch)), -1)
              ELSE g2
    IN  emit(g3, "}")

generate_while_stmt(g, stmt) ==
    LET g1 == emit(g, "while (" \o generate_expr(stmt.condition) \o ") {")
    IN  emit(Indent(generate_stmts(Indent(g1, 1), stmt.body), -1), "}")

\* a for statement is emitted as a while loop in a block of its own
generate_for_stmt(g, stmt) ==
    LET g1 == Indent(emit(g, "{"), 1)
        g2 == IF IsSome(stmt.init) THEN generate_stmt(g1, The(stmt.init)) ELSE g1
        cond == IF IsSome(stmt.condition) THEN generate_expr(The(stmt.condition)) ELSE "1"
        g3 == generate_stmts(Indent(emit(g2, "while (" \o cond \o ") {"), 1), stmt.body)
        g4 == IF IsSome(stmt.update) THEN generate_stmt(g3, The(stmt.update)) ELSE g3
    IN  emit(Indent(emit(Indent(g4, -1), "}"), -1), "}")

\* _generate_stmt
generate_stmt(g, stmt) ==
    CASE stmt.node = "VarDecl" -> generate_var_decl(g, stmt)
      [] stmt.node = "Assignment" -> generate_assignment(g, stmt)
      [] stmt.node = "IfStmt" -> generate_if_stmt(g, stmt)
      [] stmt.node = "WhileStmt" -> generate_while_stmt(g, stmt)
      [] stmt.node = "ForStmt" -> generate_for_stmt(g, stmt)
      [] stmt.node = "ReturnStmt" -> generate_return_stmt(g, stmt)
      [] stmt.node = "BreakStmt" -> emit(g, "break;")
      [] stmt.node = "ContinueStmt" -> emit(g, "continue;")
      [] stmt.node = "Block" ->
            emit(Indent(generate_stmts(Indent(emit(g, "{"), 1), stmt.statements), -1), "}")
      [] stmt.node = "ExprStmt" -> emit(g, generate_expr(stmt.expr) \o ";")
      [] OTHER -> g

RecursionError ==
    [exception |-> "RecursionError", message |-> "maximum recursion depth exceeded"]

Returned(v) == [ok |-> TRUE, val |-> v, err |-> None]

Raised(e) == [ok |-> FALSE, val |-> None, err |-> Some(e)]

\* cls.base_class and cls.base_class in self.class_info
HasKnownBase(g, cls) ==
    /\ IsSome(cls.base_class) /\ The(cls.base_class) # ""
    /\ IsSome(DictGet(g.class_info, The(cls.base_class)))

\* self.class_info[cls.base_class]
BaseOf(g, cls) == The(DictGet(g.class_info, The(cls.base_class)))

\* A walk up the base classes that has made more calls than this has met a
\* class twice, so it never ends: the interpreter stops it with a
\* RecursionError when its frame limit is reached.
ChainLimit(g) == Len(g.class_info) + 1

\* f"{c_type} {field.name};" for each field
RECURSIVE EmitFields(_, _)
EmitFields(g, fields) ==
    IF Len(fields) = 0 THEN g
    ELSE EmitFields(emit(g, type_to_c(Some(Head(fields).type_annotation)) \o " "
                                \o Head(fields).name \o ";"),
                    Tail(fields))

generate_class_struct(g, cls) ==
    LET g1 == emit(emit(g, "// Class " \o cls.name), "struct " \o cls.name \o " {")
        g2 == emit(Indent(g1, 1), "struct " \o cls.name \o "_vtable* __vtable;")
        g3 == IF HasKnownBase(g, cls) THEN EmitFields(g2, BaseOf(g, cls).fields) ELSE g2
    IN  emit(emit(Indent(EmitFields(g3, cls.fields), -1), "};"), "")

\* the loop of _collect_virtual_methods over cls.methods:
\* methods[method.name] = (method.return_type, method.params)
RECURSIVE AddOwnMethods(_, _, _)
AddOwnMethods(methods, cls, k) ==
    IF k > Len(cls.methods) THEN methods
    ELSE AddOwnMethods(
            IF cls.methods[k].name # cls.name
            THEN DictSet(methods, [name |-> cls.methods[k].name,
                                   return_type |-> cls.methods[k].return_type,
                                   params |-> cls.methods[k].params])
            ELSE methods,
            cls, k + 1)

\* _collect_virtual_methods, calls being the number of its calls in progress
RECURSIVE collect_virtual_methods(_, _, _)
collect_virtual_methods(g, cls, calls) ==
    IF calls > ChainLimit(g) THEN Raised(RecursionError)
    ELSE LET inherited == IF HasKnownBase(g, cls)
                          THEN collect_virtual_methods(g, BaseOf(g, cls), calls + 1)
                          ELSE Returned(<<>>)
         IN  IF inherited.ok THEN Returned(AddOwnMethods(inherited.val, cls, 1))
             ELSE inherited

\* f"{ret_type} (*{method_name})({param_str});" for each collected method
RECURSIVE EmitSlots(_, _, _)
EmitSlots(g, cls, methods) ==
    IF Len(methods) = 0 THEN g
    ELSE EmitSlots(emit(g, RetType(Head(methods).return_type) \o " (*"
                             \o Head(methods).name \o ")("
                             \o params_to_c_with_self(cls.name, Head(methods).params)
                             \o ");"),
                   cls, Tail(methods))

generate_vtable(g, cls) ==
    LET g1 == Indent(emit(emit(g, "// Vtable for " \o cls.name),
                          "struct " \o cls.name \o "_vtable {"), 1)
        methods == collect_virtual_methods(g, cls, 1)
    IN  IF ~methods.ok THEN [g |-> g1, raised |-> methods.err]
        ELSE [g |-> emit(emit(emit(emit(Indent(EmitSlots(g1, cls, methods.val), -1),
                                        "};"), ""),
                              "struct " \o cls.name \o "_vtable " \o cls.name
                                  \o "_vtable_instance;"), ""),
              raised |-> None]

generate_function_prototype(g, func) ==
    emit(g, RetType(func.return_type) \o " " \o func.name \o "("
                \o params_to_c(func.params) \o ");")

\* _generate_method: the constructor is the method named as the class
generate_method(g, cls, method) ==
    IF method.name = cls.name
    THEN LET g1 == Indent(emit(g, cls.name \o "* " \o cls.name \o "_new("
                                    \o params_to_c(method.params) \o ") {"), 1)
             g2 == emit(emit(g1, cls.name \o "* self = (" \o cls.name
                                    \o "*)malloc(sizeof(" \o cls.name \o "));"),
                        "self->__vtable = &" \o cls.name \o "_vtable_instance;")
             g3 == emit(generate_stmts(g2, The(method.body)), "return self;")
         IN  emit(emit(Indent(g3, -1), "}"), "")
    ELSE LET g1 == Indent(emit(g, RetType(method.return_type) \o " " \o cls.name \o "_"
                                    \o method.name \o "("
                                    \o params_to_c_with_self(cls.name, method.params)
                                    \o ") {"), 1)
         IN  emit(emit(Indent(generate_stmts(g1, The(method.body)), -1), "}"), "")

\* the first loop of _find_method_implementation
DeclaresWithBody(cls, method_name) ==
    \E k \in DOMAIN cls.methods :
        cls.methods[k].name = method_name /\ HasBody(cls.methods[k])

\* _find_method_implementation: Optional[str]
RECURSIVE find_method_implementation(_, _, _, _)
find_method_implementation(g, cls, method_name, calls) ==
    IF calls > ChainLimit(g) THEN Raised(RecursionError)
    ELSE IF DeclaresWithBody(cls, method_name) THEN Returned(Some(cls.name))
    ELSE IF HasKnownBase(g, cls)
         THEN find_method_implementation(g, BaseOf(g, cls), method_name, calls + 1)
         ELSE Returned(None)

\* the loop of _generate_vtable_init over the collected methods
RECURSIVE EmitSlotAssignments(_, _, _)
EmitSlotAssignments(g, cls, methods) ==
    IF Len(methods) = 0 THEN [g |-> g, raised |-> None]
    ELSE LET impl_class == find_method_implementation(g, cls, Head(methods).name, 1)
         IN  IF ~impl_class.ok THEN [g |-> g, raised |-> impl_class.err]
             ELSE EmitSlotAssignments(
                    IF IsSome(impl_class.val) /\ The(impl_class.val) # ""
                    THEN emit(g, cls.name \o "_vtable_instance." \o Head(methods).name
                                    \o " = " \o The(impl_class.val) \o "_"
                                    \o Head(methods).name \o ";")
                    ELSE g,
                    cls, Tail(methods))

generate_vtable_init(g, cls) ==
    LET g1 == Indent(emit(emit(g, "// Vtable initialization for " \o cls.name),
                          "void " \o cls.name \o "_vtable_init() {"), 1)
        methods == collect_virtual_methods(g, cls, 1)
    IN  IF ~methods.ok THEN [g |-> g1, raised |-> methods.err]
        ELSE LET r == EmitSlotAssignments(g1, cls, methods.val)
             IN  IF IsSome(r.raised) THEN r
                 ELSE [g |-> emit(emit(Indent(r.g, -1), "}"), ""), raised |-> None]

\* the loop of _generate_class_methods: if method.body
RECURSIVE EmitMethods(_, _, _)
EmitMethods(g, cls, k) ==
    IF k > Len(cls.methods) THEN g
    ELSE EmitMethods(IF HasBody(cls.methods[k]) THEN generate_method(g, cls, cls.methods[k])
                     ELSE g,
                     cls, k + 1)

generate_class_methods(g, cls) == generate_vtable_init(EmitMethods(g, cls, 1), cls)

\* _generate_function: nothing is emitted for a function without statements
generate_function(g, func) ==
    IF ~HasBody(func) THEN g
    ELSE LET g1 == Indent(emit(g, RetType(func.return_type) \o " " \o func.name \o "("
                                    \o params_to_c(func.params) \o ") {"), 1)
         IN  emit(emit(Indent(generate_stmts(g1, The(func.body)), -1), "}"), "")

\* for cls in program.classes: self.class_info[cls.name] = cls
RECURSIVE BuildClassInfo(_, _)
BuildClassInfo(class_info, classes) ==
    IF Len(classes) = 0 THEN class_info
    ELSE BuildClassInfo(DictSet(class_info, Head(classes)), Tail(classes))

\* f"typedef struct {cls.name} {cls.name};" for each class
RECURSIVE EmitForwardDeclarations(_, _)
EmitForwardDeclarations(g, classes) ==
    IF Len(classes) = 0 THEN g
    ELSE EmitForwardDeclarations(
            emit(g, "typedef struct " \o Head(classes).name \o " "
                        \o Head(classes).name \o ";"),
            Tail(classes))

RECURSIVE EmitPrototypes(_, _)
EmitPrototypes(g, functions) ==
    IF Len(functions) = 0 THEN g
    ELSE EmitPrototypes(generate_function_prototype(g, Head(functions)), Tail(functions))

(***************************************************************************)
(* generate() as a sequence of steps.  A position is [phase, k]: the loop  *)
(* of generate() that runs and the index of the element it handles next.   *)
(***************************************************************************)
GenPhases == <<"header", "struct", "vtable", "prototypes", "methods", "function", "return">>

PhaseIndex(phase) == CHOOSE i \in DOMAIN GenPhases : GenPhases[i] = phase

\* the number of steps of a phase: one for each element its loop visits
Rounds(program, phase) ==
    CASE phase \in {"struct", "vtable", "methods"} -> Len(program.classes)
      [] phase = "function" -> Len(program.functions)
      [] OTHER -> 1

GenPc(phase, k) == [phase |-> phase, k |-> k]

\* the first step at or after phase i
RECURSIVE EnterPhase(_, _)
EnterPhase(program, i) ==
    IF i > Len(GenPhases) THEN GenPc("returned", 0)
    ELSE IF Rounds(program, GenPhases[i]) = 0 THEN EnterPhase(program, i + 1)
    ELSE GenPc(GenPhases[i], 1)

\* the step after the one at position at
NextStep(program, at) ==
    IF at.k < Rounds(program, at.phase) THEN GenPc(at.phase, at.k + 1)
    ELSE EnterPhase(program, PhaseIndex(at.phase) + 1)

\* generate() up to the end of the forward declarations
GenerateHeaderStep(program, g) ==
    LET g1 == [g EXCEPT !.class_info = BuildClassInfo(@, program.classes)]
        g2 == emit(emit(emit(emit(emit(g1, "#include <stdio.h>"), "#include <stdlib.h>"),
                             "#include <string.h>"), "#include <stdbool.h>"), "")
    IN  emit(EmitForwardDeclarations(g2, program.classes), "")

\* the prototypes and the empty line after them
GeneratePrototypesStep(program, g) == emit(EmitPrototypes(g, program.functions), "")

\* the generator, and the exception if one is raised, after the step at
\* position at
generate_step(program, g, at) ==
    CASE at.phase = "header" -> [g |-> GenerateHeaderStep(program, g), raised |-> None]
      [] at.phase = "struct" ->
            [g |-> generate_class_struct(g, program.classes[at.k]), raised |-> None]
      [] at.phase = "vtable" -> generate_vtable(g, program.classes[at.k])
      [] at.phase = "prototypes" ->
            [g |-> GeneratePrototypesStep(program, g), raised |-> None]
      [] at.phase = "methods" -> generate_class_methods(g, program.classes[at.k])
      [] at.phase = "function" ->
            [g |-> generate_function(g, program.functions[at.k]), raised |-> None]
      [] at.phase = "return" -> [g |-> g, raised |-> None]

RECURSIVE RunGenerator(_, _, _)
RunGenerator(program, g, at) ==
    IF at.phase = "returned" THEN Returned(JoinLines(g.output))
    ELSE LET r == generate_step(program, g, at)
         IN  IF IsSome(r.raised) THEN Raised(The(r.raised))
             ELSE RunGenerator(program, r.g, NextStep(program, at))

\* CodeGenerator().generate(program): the text returned or the exception raised
generate(program) == RunGenerator(program, NewGenerator, GenPc("header", 1))

(***************************************************************************)
(* Compiler  (src/compiler/compiler.py)                                    *)
(*                                                                         *)
(* comp is the Compiler and the outcome of compile(run=False):             *)
(* comp.errors is self.errors, comp.result the CompilationResult returned  *)
(* (None until then).  pc is the stage compile() is at; "raised" is an     *)
(* exception leaving compile(), "hang" a call that does not return.        *)
(***************************************************************************)
CompilationError(stage, message, line, column) ==
    [stage |-> stage, message |-> message, line |-> line, column |-> column]

CompilationResult(success, errors, c_code) ==
    [success |-> success, errors |-> errors, c_code |-> c_code]

\* getattr of a dataclass instance: the attribute must be one of its fields
HasAttr(obj, name) == name \in DOMAIN obj

\* the diagnostics of one stage appended to self.errors
StageErrors(stage, errs) ==
    [k \in 1..Len(errs) |->
        IF stage = "parser"
        THEN CompilationError(stage, errs[k].message,
                              errs[k].token.linenum, errs[k].token.column)
        ELSE CompilationError(stage, errs[k].message, errs[k].line, errs[k].column)]

\* a gate that lets every stage run
Failed_never(errors) == FALSE

\* `if self.errors:` after a stage
Failed(errors) == errors # <<>>

\* return CompilationResult(success=False, errors=self.errors, ...)
Failure(c) == [c EXCEPT !.result = Some(CompilationResult(FALSE, c.errors, None))]

\* the sources of the tests of compile_source (src/compiler/tests/test_compiler.py)
TestSources ==
    {"\nfn main(): int {\n    let x: int = 5;\n    let y: int = 10;\n    let sum: int = x + y;\n    return 0;\n}\n",
     "\nfn main(): int {\n    let x: int = \"hello\";\n    return 0;\n}\n",
     "\nfn main(): int {\n    let x: int = undefinedVar;\n    return 0;\n}\n",
     "\nfn foo(): int {\n    return 0;\n}\n"}

InitCompile ==
    /\ source \in Strings(MaxLexLen) \cup TestSources
    /\ comp = [errors |-> <<>>, result |-> None]
    /\ lexer = NewLexer
    /\ tokens = <<>>
    /\ pc = "lexing"
    /\ ast = None /\ an = None /\ kont = <<>> /\ ccode = None
    /\ generator = None
    /\ call = None

\* stage 1, one turn of `while True:`, and the gate behind the loop
LexToken ==
    /\ pc = "lexing"
    /\ LET r == lex(source, lexer)
       IN  /\ lexer' = r.lx
           /\ tokens' = Append(tokens, r.tok)
           /\ IF r.tok.kind = "EOF"
              THEN IF Failed(comp.errors)
                   THEN comp' = Failure(comp) /\ pc' = "returned"
                   ELSE comp' = comp /\ pc' = "parsing"
              ELSE IF ~HasAttr(r.tok, "diagnostic")
                   \* `if tok.diagnostic:` raises AttributeError
                   THEN comp' = comp /\ pc' = "raised"
                   ELSE /\ comp' = IF r.tok.diagnostic # ""
                                   THEN [comp EXCEPT !.errors = Append(@,
                                            CompilationError("lexer", r.tok.diagnostic,
                                                             r.tok.linenum, r.tok.column))]
                                   ELSE comp
                        /\ pc' = pc
    /\ UNCHANGED <<source, ast, an, kont, ccode, generator, call>>

\* stage 2: Parser.parse() catches every ParseError itself, so the handler
\* of compile() is not entered; an exception of another class leaves compile()
ParseStage ==
    /\ pc = "parsing"
    /\ \E r \in {parse(source)} :
        \E c \in {[comp EXCEPT !.errors = @ \o StageErrors("parser", r.errors)]} :
            IF IsSome(r.raised)
            THEN ast' = ast /\ comp' = comp /\ pc' = "raised"
            ELSE /\ ast' = r.program
                 /\ IF Failed(c.errors)
                    THEN comp' = Failure(c) /\ pc' = "returned"
                    ELSE comp' = c /\ pc' = "analysis"
    /\ UNCHANGED <<source, lexer, tokens, an, kont, ccode, generator, call>>

\* stages 3 and 4
AnalyzeStage ==
    /\ pc = "analysis"
    /\ \E st \in {analyze(ast)} :
        \E c \in {[comp EXCEPT !.errors = @ \o StageErrors("semantic", st.an.errors)]} :
            /\ an' = st.an
            /\ IF st.pc.phase = "hang"
               THEN comp' = comp /\ pc' = "hang" /\ ccode' = ccode
               ELSE IF Failed(c.errors)
                    THEN comp' = Failure(c) /\ pc' = "returned" /\ ccode' = ccode
                    ELSE \E c_code \in {generate(ast)} :
                            \* an exception of generate() leaves compile()
                            IF ~c_code.ok
                            THEN comp' = comp /\ pc' = "raised" /\ ccode' = ccode
                            ELSE /\ ccode' = Some(c_code.val)
                                 \* return CompilationResult(success=True, errors=[], ...)
                                 /\ comp' = [c EXCEPT !.result =
                                                Some(CompilationResult(TRUE, <<>>, ccode'))]
                                 /\ pc' = "returned"
    /\ UNCHANGED <<source, lexer, tokens, ast, kont, generator, call>>

NextCompile == LexToken \/ ParseStage \/ AnalyzeStage

SpecCompile == InitCompile /\ [][NextCompile]_vars

(***************************************************************************)
(* SemanticAnalyzer().analyze(program) on the programs of a family of      *)
(* sources that parse without error                                        *)
(***************************************************************************)
ClassParts ==
    {"",
     "class main { } ",
     "class f { } ",
     "class D { #x: int fn #secret(): int { return 1; } fn g(s: S): int { return s.secret() + this.x; } } class S : D { fn f(): int { return this.secret(); } } ",
     "class A : B { } class B : A { } ",
     "class print { fn m() { break; } } "}

FunctionParts ==
    {"",
     "fn f() { break; } ",
     "fn f(a: int): int { while a < 3 { a = a + 1; if a == 2 { continue; } else { break; } } return u; } "}

MainParts ==
    {"",
     "fn main(): int { return 0; }",
     "fn main(): int { let x: int = \"hello\"; return 0; }",
     "fn main(): int { let d = new D(u); d.g(v); return d.x; }",
     "fn main(): int { for let j = 0; j < 2; j = j + 1 { { j = j; } } let a: D = new A(); return 0; }",
     "fn main(): int { return u; } class Z { fn m() { break; } } fn main() { }"}

\* programs about member lookup, scopes and comparisons
MemberPrograms ==
    {"class G { g: int fn gm(): int { return 1; } } class P : G { p: int fn pm(): int { return 2; } } class K : P { k: int fn km(): int { return 3; } } fn main(): int { let o = new K(); o.km(); o.pm(); o.gm(); o.zm(); let a = o.k; let b = o.p; let c = o.g; let d = o.z; return 0; }",
     "fn f(a: int): int { let b = 1; if b == 1 { let b = 2; } else { let b = 3; } while b == 1 { let b = 4; } for let i = 0; i < 1; i = i + 1 { let b = 5; } { let b = 6; } let a = 7; let b = 8; return a; } fn main(): int { return 0; }",
     "class T { fn m(a: int) { let a = 1; let this = 2; } } fn main(): int { return 0; }",
     "class P { } class K : P { } fn main(): int { let a = 1 == 1.5; let b = 1.5 == 1; let c = new K() != new P(); let d = new P() != new K(); return 0; }"}

Programs ==
    {c \o f \o m : c \in ClassParts, f \in FunctionParts, m \in MainParts}
    \cup MemberPrograms

InitAnalyze ==
    /\ source \in Programs
    /\ parse(source).errors = <<>>
    /\ ast = parse(source).program
    /\ an = NewAnalyzer
    /\ kont = <<>>
    /\ pc = StartAnalyze(ast)
    /\ lexer = NewLexer /\ tokens = <<>> /\ comp = None /\ ccode = None
    /\ generator = None
    /\ call = None

SpecAnalyze == InitAnalyze /\ [][NextAnalyze]_vars



(***************************************************************************)
(* SpecParse: Parser(Lexer(source)).parse(), one iteration of its          *)
(* top-level loop per step (src/compiler/parser/parser.py, lines 60-77).   *)
(* comp is the Parser with the loop's locals: comp.parser its lookahead    *)
(* and lexer, comp.errors its errors list, comp.classes and comp.functions *)
(* the lists parse() is filling.  ast is the Program returned; pc is       *)
(* "raised" when an exception has left parse().                            *)
(***************************************************************************)
\* declarations and fragments of declarations, well-formed and not
ParseSourceParts ==
    {"fn f(a: int[]) { } ",
     "fn g() { let x: int[]; } ",
     "fn h() { a[1]; } ",
     "class A { x: A[] } ",
     "class C : A { #y: int fn #p() { } } ",
     "fn m(): int { return a.b(1, c) + 1; } ",
     "fn q() { if a { b; } else { c; } } ",
     "fn s() { for ;; { break; } } ",
     "fn r() { while 1 { x = ; } } ",
     "fn k() {\n",
     "fn\n",
     "class B :\n",
     "let x = 1;\n",
     "} ",
     "class E { fn (",
     "fn t() { { x += new ",
     "fn v() { x = 1²; } ",
     "class F { fn w(): float { return 2.²5; } } "}

ParseSources == {d1 \o d2 : d1 \in ParseSourceParts, d2 \in ParseSourceParts \cup {""}}

InitParse ==
    /\ source \in ParseSources
    /\ comp = [parser |-> NewParser(source), errors |-> <<>>,
               classes |-> <<>>, functions |-> <<>>]
    /\ ast = None
    /\ pc = "parse"
    /\ lexer = NewLexer /\ tokens = <<>> /\ an = None /\ kont = <<>> /\ ccode = None
    /\ generator = None
    /\ call = None

\* except ParseError as e: self.errors.append(e); self.synchronize()
Caught(src, c, r) ==
    [c EXCEPT !.errors = Append(@, The(r.err)), !.parser = synchronize(src, r.p)]

\* an iteration that takes the branch `if self.check(TokenKind.KW_CLASS)`
ParseClass ==
    /\ pc = "parse"
    /\ ~check(source, comp.parser, "EOF")
    /\ check(source, comp.parser, "KW_CLASS")
    /\ \E r \in {parse_class_decl(source, comp.parser)} :
           IF r.ok
           THEN /\ comp' = [comp EXCEPT !.classes = Append(@, r.val), !.parser = r.p]
                /\ pc' = pc
           ELSE IF IsParseError(The(r.err))
           THEN comp' = Caught(source, comp, r) /\ pc' = pc
           ELSE comp' = [comp EXCEPT !.parser = r.p] /\ pc' = "raised"
    /\ UNCHANGED <<source, lexer, tokens, ast, an, kont, ccode, generator, call>>

\* an iteration that takes the branch `elif self.check(TokenKind.KW_FN)`
ParseFunction ==
    /\ pc = "parse"
    /\ ~check(source, comp.parser, "EOF")
    /\ ~check(source, comp.parser, "KW_CLASS")
    /\ check(source, comp.parser, "KW_FN")
    /\ \E r \in {parse_function_decl(source, comp.parser, FALSE, FALSE)} :
           IF r.ok
           THEN /\ comp' = [comp EXCEPT !.functions = Append(@, r.val), !.parser = r.p]
                /\ pc' = pc
           ELSE IF IsParseError(The(r.err))
           THEN comp' = Caught(source, comp, r) /\ pc' = pc
           ELSE comp' = [comp EXCEPT !.parser = r.p] /\ pc' = "raised"
    /\ UNCHANGED <<source, lexer, tokens, ast, an, kont, ccode, generator, call>>

\* an iteration that takes the else branch and raises
RejectToken ==
    /\ pc = "parse"
    /\ ~check(source, comp.parser, "EOF")
    /\ ~check(source, comp.parser, "KW_CLASS")
    /\ ~check(source, comp.parser, "KW_FN")
    /\ comp' = Caught(source, comp,
                      Raise("Expected class or function declaration", source, comp.parser))
    /\ UNCHANGED <<source, lexer, tokens, pc, ast, an, kont, ccode, generator, call>>

\* the loop ends: return Program(classes, functions, SourceLocation(1, 1))
ReturnProgram ==
    /\ pc = "parse"
    /\ check(source, comp.parser, "EOF")
    /\ ast' = Some(Program(comp.classes, comp.functions))
    /\ pc' = "returned"
    /\ UNCHANGED <<source, lexer, tokens, comp, an, kont, ccode, generator, call>>

NextParse == ParseClass \/ ParseFunction \/ RejectToken \/ ReturnProgram

SpecParse == InitParse /\ [][NextParse]_vars

(***************************************************************************)
(* SpecGenerate: SemanticAnalyzer().analyze(program) and, for a program it *)
(* accepts, CodeGenerator().generate(program), one loop iteration of       *)
(* generate() at a step, on the programs of a family of sources that parse *)
(* without error.                                                          *)
(***************************************************************************)
GenClassParts ==
    {"",
     "class A { x: int fn m() { print(\"a\"); } } class B : A { y: float fn !m() { } fn n(): int { return 2; } } class C : B { z: A fn k(s: string): int { return this.n(); } } ",
     "class A : B { } class B : A { } ",
     "class A : A { fn m() { } } ",
     "class P { v: int fn P(a: int) { this.v = a; } fn get(): int { return this.v; } } class Q : P { w: bool fn !get(): int { return 0; } } ",
     "class A : Zed { w: float } "}

GenFunctionParts ==
    {"fn main(): int { return 0; }",
     "fn main() { }",
     "fn f(a: int, s: string): float { if a < 1 { return 1.5; } else { a += 1; } while true { break; } for let i = 0; i < a; i = i + 1 { continue; } { print(s); } return 2.0; } fn main(): int { let x = f(1, \"s\"); let n: int; read(n); return 0; }",
     "fn useC(): int { let c = new C(); let b: B = c; b.m(); return c.k(\"s\"); } fn main(): int { return useC(); }",
     "fn main(): int { let p = new P(1); let q: P = new Q(); return q.get(); }",
     "class E { fn E() { } } fn main(): int { let e = new E(); let q = new Q(7, 8); return 0; }",
     "fn h(): float { return 1.5; } fn main(): int { let a = 1.5 + 2; let b = 1 < 2; let c = \"s\"; let d = h(); let e = 7 * 2; return 0; }"}

GenSources == {c \o f : c \in GenClassParts, f \in GenFunctionParts}

InitGenerate ==
    /\ source \in GenSources
    /\ parse(source).errors = <<>>
    /\ ast = parse(source).program
    /\ pc = GenPc("analysis", 1)
    /\ an = NewAnalyzer
    /\ generator = None
    /\ ccode = None
    /\ lexer = NewLexer /\ tokens = <<>> /\ comp = None /\ kont = <<>>
    /\ call = None

\* analyzer.analyze(ast); a program with a diagnostic is not generated
AnalyzeProgram ==
    /\ pc.phase = "analysis"
    /\ \E st \in {analyze(ast)} :
        /\ an' = st.an
        /\ IF st.pc.phase = "hang" THEN pc' = GenPc("hang", 0) /\ generator' = generator
           ELSE IF st.an.errors # <<>>
                THEN pc' = GenPc("rejected", 0) /\ generator' = generator
                ELSE pc' = GenPc("header", 1) /\ generator' = NewGenerator
    /\ UNCHANGED <<source, lexer, tokens, comp, ast, kont, ccode, call>>

\* the generator is left as r.g; an exception leaves generate()
Generated(r) ==
    /\ generator' = r.g
    /\ pc' = IF IsSome(r.raised) THEN GenPc("raised", 0) ELSE NextStep(ast, pc)
    /\ comp' = IF IsSome(r.raised) THEN r.raised ELSE comp
    /\ UNCHANGED <<source, lexer, tokens, ast, an, kont, ccode, call>>

GenerateHeader ==
    /\ pc.phase = "header"
    /\ Generated([g |-> GenerateHeaderStep(ast, generator), raised |-> None])

GenerateClassStruct ==
    /\ pc.phase = "struct"
    /\ Generated([g |-> generate_class_struct(generator, ast.classes[pc.k]),
                  raised |-> None])

GenerateVtable ==
    /\ pc.phase = "vtable"
    /\ Generated(generate_vtable(generator, ast.classes[pc.k]))

GeneratePrototypes ==
    /\ pc.phase = "prototypes"
    /\ Generated([g |-> GeneratePrototypesStep(ast, generator), raised |-> None])

GenerateClassMethods ==
    /\ pc.phase = "methods"
    /\ Generated(generate_class_methods(generator, ast.classes[pc.k]))

GenerateFunction ==
    /\ pc.phase = "function"
    /\ Generated([g |-> generate_function(generator, ast.functions[pc.k]),
                  raised |-> None])

\* return "\n".join(self.output)
ReturnCode ==
    /\ pc.phase = "return"
    /\ ccode' = Some(JoinLines(generator.output))
    /\ pc' = GenPc("returned", 0)
    /\ UNCHANGED <<source, lexer, tokens, comp, ast, an, kont, generator, call>>

NextGenerate ==
    \/ AnalyzeProgram
    \/ GenerateHeader \/ GenerateClassStruct \/ GenerateVtable \/ GeneratePrototypes
    \/ GenerateClassMethods \/ GenerateFunction
    \/ ReturnCode

SpecGenerate == InitGenerate /\ [][NextGenerate]_vars

(***************************************************************************)
(* SpecTypes: a call of SemanticAnalyzer._types_compatible(expected,       *)
(* actual) on the analyzer that analyze() leaves behind for a family of    *)
(* class declarations, the two types drawn from a bounded set.             *)
(***************************************************************************)
TypeSources ==
    {"",
     "class A { } class B : A { } class C : B { } class D { } ",
     "class A : B { } class B : A { } class C { } "}

TypeNames == {"int", "float", "bool", "string", "void", "A", "B", "C", "D"}

Types == {TypeInfo(name, is_array) : name \in TypeNames, is_array \in BOOLEAN}

InitTypes ==
    /\ source \in TypeSources
    /\ ast = parse(source).program
    /\ an = analyze(ast).an
    /\ call \in {[expected |-> e, actual |-> a, result |-> None] : e \in Types, a \in Types}
    /\ pc = "call"
    /\ lexer = NewLexer /\ tokens = <<>> /\ comp = None /\ kont = <<>>
    /\ ccode = None /\ generator = None

\* self._types_compatible(expected, actual) returns, or never does
TypesCompatible ==
    /\ pc = "call"
    /\ \E c \in {types_compatible(an.global_scope, call.expected, call.actual)} :
        IF c = "diverges"
        THEN pc' = "hang" /\ call' = call
        ELSE pc' = "returned" /\ call' = [call EXCEPT !.result = Some(c = "true")]
    /\ UNCHANGED <<source, lexer, tokens, comp, ast, an, kont, ccode, generator>>

NextTypes == TypesCompatible

SpecTypes == InitTypes /\ [][NextTypes]_vars

(***************************************************************************)
(* Claims about the lexer, checked under SpecLex / SpecLexFair             *)
(***************************************************************************)
LastToken == tokens[Len(tokens)]

C9_CursorInRange == lexer.ptr <= Len(source)

C9_CallStep ==
    LexCall =>
        /\ (tokens'[Len(tokens')].kind # "EOF" => lexer'.ptr >= lexer.ptr + 1)
        /\ (lexer.ptr >= Len(source) => tokens'[Len(tokens')] = EofToken)
        /\ (tokens # <<>> /\ LastToken.kind = "EOF" => tokens'[Len(tokens')] = EofToken)

\* C9: repeated lex() calls reach EOF after finitely many calls: a call that
\* returns a non-EOF token has advanced the cursor by at least one character,
\* the cursor never exceeds the input length, a call made once the input is
\* exhausted (or after an EOF) returns the EOF token (line -1, column -1), and
\* an EOF token is eventually returned.
C9_LexReachesEof ==
    /\ []C9_CursorInRange
    /\ [][C9_CallStep]_vars
    /\ <>(tokens # <<>> /\ LastToken = EofToken)

\* a non-empty input whose tokens were followed by EOF twice
C9_Witness ==
    /\ Len(source) > 0
    /\ Len(tokens) >= 3
    /\ tokens[1].kind # "EOF"
    /\ tokens[Len(tokens) - 1] = EofToken
    /\ LastToken = EofToken

\* the number of newline characters among the first n characters of s
RECURSIVE Newlines(_, _)
Newlines(s, n) ==
    IF n = 0 THEN 0
    ELSE Newlines(s, n - 1) + (IF SubSeq(s, n, n) = "\n" THEN 1 ELSE 0)

\* the 0-based index of the character that follows the last newline among
\* the first n characters of s (0 when there is none)
RECURSIVE LineStart(_, _)
LineStart(s, n) ==
    IF n = 0 THEN 0
    ELSE IF SubSeq(s, n, n) = "\n" THEN n ELSE LineStart(s, n - 1)

\* the 0-based index of the first character of the token lex() returned
\* last: a token's value is the text consumed for it
TokenStart == lexer.ptr - Len(LastToken.value)

TokenTextConsumed ==
    (tokens # <<>> /\ LastToken.kind # "EOF") =>
        SubSeq(source, TokenStart + 1, lexer.ptr) = LastToken.value

\* C13: every non-EOF token returned by lex() has linenum = 1 + the number
\* of newline characters before its first character, and column = the number
\* of characters between the last preceding newline (or the start of the
\* input) and its first character, whatever tokens precede it.
C13_TokenPositions ==
    (tokens # <<>> /\ LastToken.kind # "EOF") =>
        /\ LastToken.linenum = 1 + Newlines(source, TokenStart)
        /\ LastToken.column = TokenStart - LineStart(source, TokenStart)

(***************************************************************************)
(* Claims about Compiler.compile, checked under SpecCompile                *)
(***************************************************************************)
Range(s) == {s[k] : k \in DOMAIN s}

\* sub occurs in s
Contains(s, sub) ==
    \E i \in 0..(Len(s) - Len(sub)) : SubSeq(s, i + 1, i + Len(sub)) = sub

\* the INVALID tokens the lexer emits for src, in emission order
InvalidTokens(src) == SelectSeq(LexAll(src), LAMBDA t : t.kind = "INVALID")

\* compile() is over: it returned, raised, or is stuck in a call
CompileEnded == pc \in {"returned", "raised", "hang"}

\* src lexes with no INVALID token, parses with no recorded error and gets
\* no semantic diagnostic
Clean(src) ==
    /\ InvalidTokens(src) = <<>>
    /\ \E r \in {parse(src)} :
        /\ r.errors = <<>>
        /\ \E st \in {analyze(r.program)} :
            st.pc.phase = "done" /\ st.an.errors = <<>>

\* C1: for every source that lexes with no INVALID token, parses with no
\* recorded error and yields no semantic diagnostic, compile_source(source,
\* run=False) returns without raising a result with success = true, an empty
\* errors list and a non-null c_code.
C1_CleanSourceCompiles ==
    (CompileEnded /\ Clean(source)) =>
        /\ pc = "returned"
        /\ The(comp.result).success
        /\ The(comp.result).errors = <<>>
        /\ IsSome(The(comp.result).c_code)

\* C2: for every source compile() returns without raising; the errors of the
\* result hold exactly one entry tagged 'lexer' per INVALID token, in
\* emission order, each with that token's line and column (so a valid token
\* contributes none); success is false whenever an INVALID token exists.
C2_OneLexerErrorPerInvalidToken ==
    CompileEnded =>
        /\ pc = "returned"
        /\ \E inv \in {InvalidTokens(source)} :
            \E le \in {SelectSeq(The(comp.result).errors, LAMBDA e : e.stage = "lexer")} :
                /\ Len(le) = Len(inv)
                /\ \A k \in 1..Len(inv) :
                        le[k].line = inv[k].linenum /\ le[k].column = inv[k].column
                /\ inv # <<>> => ~The(comp.result).success

\* C3: the parser runs only if lexing produced no diagnostic, the analyzer
\* only if the parser recorded no error, the code generator only if the
\* analyzer returned no error; so all errors of a returned result carry one
\* stage tag, and c_code is set only when lexer, parser and analyzer produced
\* no diagnostic at all.
C3_StagesGated ==
    /\ pc \in {"parsing", "analysis"} => comp.errors = <<>>
    /\ ast # None => \A e \in Range(comp.errors) : e.stage # "lexer"
    /\ an # None => \A e \in Range(comp.errors) : e.stage \notin {"lexer", "parser"}
    /\ ccode # None => comp.errors = <<>> /\ an # None /\ an.errors = <<>>
    /\ IsSome(comp.result) =>
        /\ \A d, e \in Range(The(comp.result).errors) : d.stage = e.stage
        /\ IsSome(The(comp.result).c_code) =>
              /\ ccode # None /\ comp.errors = <<>>
              /\ InvalidTokens(source) = <<>>
              /\ parse(source).errors = <<>>

\* the analyzer's diagnostic stopped the pipeline: the parser and the
\* analyzer ran, the code generator did not
C3_Witness ==
    /\ pc = "returned"
    /\ ast # None /\ an # None /\ ccode = None
    /\ The(comp.result) =
          CompilationResult(FALSE,
              <<CompilationError("semantic", "No 'main' function defined", 0, 0)>>, None)

\* main declares a variable whose literal initializer has a type that is
\* not compatible with the variable's annotation
MismatchedLet(src) ==
    \E r \in {parse(src)} :
        /\ r.errors = <<>>
        /\ \E f \in Range(r.program.functions) :
            /\ f.name = "main" /\ IsSome(f.body)
            /\ \E s \in Range(The(f.body)) :
                /\ s.node = "VarDecl"
                /\ IsSome(s.type_annotation) /\ IsSome(s.initializer)
                /\ The(s.initializer).node \in
                      {"IntLiteral", "FloatLiteral", "StringLiteral", "CharLiteral", "BoolLiteral"}
                /\ types_compatible(NewAnalyzer.global_scope,
                                    The(type_node_to_info(s.type_annotation)),
                                    The(analyze_expr(NewAnalyzer, The(s.initializer)).t)) = "false"

\* C4: for every program whose main contains `let x: T = e` with the type of
\* e not compatible with T, compile_source(source, run=False) returns
\* success = false with a 'semantic' error whose message contains
\* "Type mismatch".
C4_TypeMismatchReported ==
    (CompileEnded /\ MismatchedLet(source)) =>
        /\ pc = "returned"
        /\ ~The(comp.result).success
        /\ \E e \in Range(The(comp.result).errors) :
              e.stage = "semantic" /\ Contains(e.message, "Type mismatch")


(***************************************************************************)
(* Claims about the analyzer, checked under SpecAnalyze                    *)
(***************************************************************************)
\* the concatenation of a sequence of sequences
RECURSIVE Flatten(_)
Flatten(seqs) == IF seqs = <<>> THEN <<>> ELSE Head(seqs) \o Flatten(Tail(seqs))

\* the concatenation of the sequences f(xs[1]), ..., f(xs[n])
FlatMap(xs, f(_)) == Flatten([k \in DOMAIN xs |-> f(xs[k])])

\* the Identifier nodes an expression reads, in source order; the name a
\* function call calls is not one of them
RECURSIVE IdentifiersOf(_)
IdentifiersOf(expr) ==
    CASE expr.node = "Identifier" -> <<expr>>
      [] expr.node = "BinaryExpr" -> IdentifiersOf(expr.left) \o IdentifiersOf(expr.right)
      [] expr.node = "UnaryExpr" -> IdentifiersOf(expr.operand)
      [] expr.node = "CallExpr" ->
            (IF expr.callee.node = "Identifier" THEN <<>> ELSE IdentifiersOf(expr.callee))
            \o FlatMap(expr.arguments, IdentifiersOf)
      [] expr.node = "MemberExpr" -> IdentifiersOf(expr.obj)
      [] expr.node = "NewExpr" -> FlatMap(expr.arguments, IdentifiersOf)
      [] expr.node = "IndexExpr" -> IdentifiersOf(expr.obj) \o IdentifiersOf(expr.index)
      [] OTHER -> <<>>

\* the expressions of a statement that are evaluated in the scope the
\* statement is in
StmtExprs(stmt) ==
    CASE stmt.node = "VarDecl" -> stmt.initializer
      [] stmt.node = "Assignment" -> <<stmt.target, stmt.value>>
      [] stmt.node = "ReturnStmt" -> stmt.value
      [] stmt.node = "ExprStmt" -> <<stmt.expr>>
      [] stmt.node \in {"IfStmt", "WhileStmt"} -> <<stmt.condition>>
      [] OTHER -> <<>>

AtStatement == step(ast, St) \in {"AnalyzeStmt", "AnalyzeIfStmt", "AnalyzeWhileStmt"}

\* the diagnostics the step being taken appends
NewErrors == SubSeq(an'.errors, Len(an.errors) + 1, Len(an'.errors))

At(e, node) == e.line = node.loc.line /\ e.column = node.loc.column

C5_Step ==
    AtStatement =>
        \A id \in Range(FlatMap(StmtExprs(CurStmt(St)), IdentifiersOf)) :
            IsNone(lookup(an, id.name)) =>
                \E e \in Range(NewErrors) :
                    Contains(e.message, "Undefined variable") /\ At(e, id)

\* C5: every identifier that occurs in an expression of an analysed body
\* (initializer, operand, argument of a function call, method call or
\* constructor call) and whose name no enclosing scope binds gets a
\* diagnostic containing "Undefined variable" when its statement is analysed.
C5_UndefinedVariableReported == [][C5_Step]_vars

DeclaresFreeMain(program) == \E f \in Range(program.functions) : f.name = "main"

DeclaresClassMain(program) == \E c \in Range(program.classes) : c.name = "main"

\* the missing-main diagnostic: mentions main, at line 0, column 0
MainDiagnosed ==
    \E e \in Range(an.errors) : Contains(e.message, "main") /\ e.line = 0 /\ e.column = 0

RECURSIVE JumpsOf(_, _)
JumpsOf(stmts, inloop) ==
    IF stmts = <<>> THEN <<>>
    ELSE (CASE Head(stmts).node \in {"BreakStmt", "ContinueStmt"} ->
                <<[stmt |-> Head(stmts), inloop |-> inloop]>>
            [] Head(stmts).node = "IfStmt" ->
                JumpsOf(Head(stmts).then_branch, inloop)
                \o (IF IsSome(Head(stmts).else_branch)
                    THEN JumpsOf(The(Head(stmts).else_branch), inloop) ELSE <<>>)
            [] Head(stmts).node \in {"WhileStmt", "ForStmt"} -> JumpsOf(Head(stmts).body, TRUE)
            [] Head(stmts).node = "Block" -> JumpsOf(Head(stmts).statements, inloop)
            [] OTHER -> <<>>)
         \o JumpsOf(Tail(stmts), inloop)

\* the functions and methods of a program that have a body
Bodies(program) ==
    SelectSeq(program.functions
              \o FlatMap(program.classes, LAMBDA c : c.methods), HasBody)

ProgramJumps(program) ==
    FlatMap(Bodies(program), LAMBDA f : JumpsOf(The(f.body), FALSE))

JumpDiagnosed(stmt) ==
    \E e \in Range(an.errors) :
        /\ e.message = "'" \o (IF stmt.node = "BreakStmt" THEN "break" ELSE "continue")
                           \o "' outside of loop"
        /\ At(e, stmt)

C7_Jumps ==
    /\ pc.phase = "done" =>
          \A j \in Range(ProgramJumps(ast)) : JumpDiagnosed(j.stmt) <=> ~j.inloop
    /\ an.loop_depth >= 0
    /\ step(ast, St) \in {"AnalyzeFunction", "AnalyzeMethod", "ExitFunction", "ExitMethod"}
          => an.loop_depth = 0

C7_LoopStep ==
    /\ (step(ast, St) \in {"AnalyzeWhileStmt", "AnalyzeForStmt"} /\ pc'.phase # "hang")
          => an'.loop_depth = an.loop_depth + 1
    /\ step(ast, St) \in {"ExitWhile", "ExitFor"} => an'.loop_depth = an.loop_depth - 1
    /\ step(ast, St) \notin {"AnalyzeWhileStmt", "AnalyzeForStmt", "ExitWhile", "ExitFor"}
          => an'.loop_depth = an.loop_depth

\* C7: a break or continue statement gets the diagnostic "'break' outside of
\* loop" / "'continue' outside of loop" if and only if no while or for body
\* of its function encloses it; the loop-depth counter goes up by one on
\* entry to a loop body and down by one on exit, is never negative, and is 0
\* whenever the analysis of a function or method begins or ends.
C7_JumpDiagnosedIffOutsideLoop == []C7_Jumps /\ [][C7_LoopStep]_vars

\* the member accesses (field reads and method calls) an expression makes
RECURSIVE AccessesOf(_)
AccessesOf(expr) ==
    CASE expr.node = "MemberExpr" ->
            <<[obj |-> expr.obj, member |-> expr.member, method |-> FALSE, loc |-> expr.loc]>>
            \o AccessesOf(expr.obj)
      [] expr.node = "CallExpr" ->
            IF expr.callee.node = "MemberExpr"
            THEN <<[obj |-> expr.callee.obj, member |-> expr.callee.member,
                    method |-> TRUE, loc |-> expr.loc]>>
                 \o AccessesOf(expr.callee.obj)
            ELSE FlatMap(expr.arguments, AccessesOf)
      [] expr.node = "BinaryExpr" -> AccessesOf(expr.left) \o AccessesOf(expr.right)
      [] expr.node = "UnaryExpr" -> AccessesOf(expr.operand)
      [] expr.node = "IndexExpr" -> AccessesOf(expr.obj) \o AccessesOf(expr.index)
      [] OTHER -> <<>>

\* the class that declares the member reached from class cname, looking in
\* the class and then up its base classes (fuel of them at most), with
\* whether the member is private there
RECURSIVE Declaring(_, _, _, _, _)
Declaring(program, cname, member, method, fuel) ==
    LET cs == SelectSeq(program.classes, LAMBDA c : c.name = cname)
        ms == SelectSeq(IF method THEN cs[1].methods ELSE cs[1].fields,
                        LAMBDA m : m.name = member)
    IN  IF cs = <<>> THEN None
        ELSE IF ms # <<>>
             THEN Some([class |-> cname, is_private |-> ms[Len(ms)].is_private])
             ELSE IF fuel = 0 \/ IsNone(cs[1].base_class) THEN None
                  ELSE Declaring(program, The(cs[1].base_class), member, method, fuel - 1)

PrivateDiagnosed(acc) ==
    \E e \in Range(NewErrors) :
        /\ Contains(e.message, "private")
        /\ Contains(e.message, "'" \o acc.member \o "'")
        /\ e.line = acc.loc.line /\ e.column = acc.loc.column

C8_Step ==
    AtStatement =>
        \A acc \in Range(FlatMap(StmtExprs(CurStmt(St)), AccessesOf)) :
            \E t \in {analyze_expr(an, acc.obj).t} :
                IsSome(t) =>
                    \E d \in {Declaring(ast, The(t).name, acc.member, acc.method,
                                        Len(ast.classes))} :
                        (IsSome(d) /\ The(d).is_private) =>
                            (PrivateDiagnosed(acc) <=>
                                ~(/\ IsSome(an.current_class)
                                  /\ The(an.current_class).name = The(d).class))

\* C8: a field access or method call that resolves to a member declared
\* private in class D gets a diagnostic when it occurs outside a method of D
\* (a free function, a method of an unrelated class, or a method of a
\* subclass of D that reaches the member through inheritance) and none when
\* it occurs inside a method of D.
C8_PrivateAccessReported == [][C8_Step]_vars

\* position (l1, c1) is not after position (l2, c2)
NotAfter(l1, c1, l2, c2) == l1 < l2 \/ (l1 = l2 /\ c1 <= c2)

\* C16: within the semantic stage the errors list is ordered by source
\* position: of two diagnostics other than the (0, 0) missing-main one, the
\* one listed earlier is not after the later one, also when a free function
\* with an error precedes a class with an error and when a
\* duplicate-declaration error follows a body error in the source.
C16_ErrorsInSourceOrder ==
    \A i \in DOMAIN an.errors, j \in DOMAIN an.errors :
        (/\ i < j
         /\ an.errors[i] # NoMainError
         /\ an.errors[j] # NoMainError)
            => NotAfter(an.errors[i].line, an.errors[i].column,
                        an.errors[j].line, an.errors[j].column)

\* the step being taken enters the statement list of the declaration decl
EntersBody(decl) ==
    /\ pc'.phase = "body"
    /\ kont' = <<Frame(IF pc.phase = "methods" THEN "method" ELSE "function",
                       The(decl.body), decl)>>

\* every class is passed on to its method loop, and every method and free
\* function that has a body has its statements analysed
C22_BodiesEntered ==
    /\ step(ast, St) = "AnalyzeClass" => pc'.phase = "methods" /\ pc'.ci = pc.ci
    /\ (step(ast, St) = "AnalyzeMethod" /\ HasBody(ast.classes[pc.ci].methods[pc.mi]))
            => EntersBody(ast.classes[pc.ci].methods[pc.mi])
    /\ (step(ast, St) = "AnalyzeFunction" /\ HasBody(ast.functions[pc.fi]))
            => EntersBody(ast.functions[pc.fi])

\* a statement list that was entered is walked to its end: the step at a
\* statement moves on to the next statement or enters its nested list
C22_StatementsWalked ==
    (pc.phase = "body" /\ Top(St).i <= Len(Top(St).stmts)) =>
        /\ pc'.phase = "body"
        /\ \/ kont' = Stepped(St)
           \/ /\ Len(kont') = Len(kont) + 1
              /\ SubSeq(kont', 1, Len(kont)) = Stepped(St)

\* C22: analyze() terminates and analyses every statement of every class
\* method and free function that has a body, whatever diagnostics earlier
\* declarations produced and whatever base classes the program declares:
\* it is never stuck in a comparison of types, it enters every body, and it
\* walks every list of statements to its end.
C22_AnalyzesEveryStatement ==
    /\ [](pc.phase # "hang")
    /\ [][C22_BodiesEntered /\ C22_StatementsWalked]_vars

\* analyze() enters the body of every method of a class whose name is bound
\* to a ClassSymbol and of every function whose name is bound to a
\* FuncSymbol: it holds
C22_BoundBodiesEntered ==
    [][/\ (step(ast, St) = "AnalyzeMethod" /\ HasBody(ast.classes[pc.ci].methods[pc.mi]))
            => EntersBody(ast.classes[pc.ci].methods[pc.mi])
       /\ (/\ step(ast, St) = "AnalyzeFunction" /\ HasBody(ast.functions[pc.fi])
           /\ IsSome(DictGet(an.global_scope, ast.functions[pc.fi].name))
           /\ The(DictGet(an.global_scope, ast.functions[pc.fi].name)).sym = "func")
            => EntersBody(ast.functions[pc.fi])]_vars


(***************************************************************************)
(* Claims about Parser.parse, checked under SpecParse                      *)
(***************************************************************************)
ParseReturned == pc = "returned"

\* the kind lex() gives the one-character source c
KindOf(c) == LexAll(c)[1].kind

\* C12: `T[]` in type position parses without error to a TypeNode with
\* is_array = true and `a[i]` in expression position to an IndexExpr; `[` and
\* `]` reach the parser as kinds distinct from the kinds of `{` and `}`.
C12_BracketsParse ==
    /\ {KindOf("["), KindOf("]")} \cap {KindOf("{"), KindOf("}")} = {}
    /\ (ParseReturned /\ source = "fn f(a: int[]) { } ") =>
          /\ comp.errors = <<>>
          /\ Len(The(ast).functions) = 1
          /\ Len(The(ast).functions[1].params) = 1
          /\ The(ast).functions[1].params[1].type_annotation.is_array
    /\ (ParseReturned /\ source = "class A { x: A[] } ") =>
          /\ comp.errors = <<>>
          /\ Len(The(ast).classes) = 1
          /\ Len(The(ast).classes[1].fields) = 1
          /\ The(ast).classes[1].fields[1].type_annotation.is_array
    /\ (ParseReturned /\ source = "fn h() { a[1]; } ") =>
          /\ comp.errors = <<>>
          /\ Len(The(ast).functions) = 1
          /\ Len(The(The(ast).functions[1].body)) = 1
          /\ The(The(ast).functions[1].body)[1].node = "ExprStmt"
          /\ The(The(ast).functions[1].body)[1].expr.node = "IndexExpr"

\* the parser states from p on: p and the states advance() leads to
RECURSIVE Suffixes(_, _)
Suffixes(src, p) ==
    IF check(src, p, "EOF") THEN {p} ELSE {p} \cup Suffixes(src, advance(src, p))

\* the condition of the class-body loop and of the block loop
LoopContinues(src, p) == ~check(src, p, "RBRACE") /\ ~check(src, p, "EOF")

\* one iteration of the class-body loop of parse_class_decl
ClassMember(src, p) ==
    LET p1 == match(src, p, "HASH")
    IN  IF check(src, p1, "KW_FN") THEN parse_function_decl(src, p1, TRUE, p1 # p)
        ELSE parse_field_decl(src, p1, p1 # p)

\* r is a call that raised, or one that returned having consumed a token
RaisedOrConsumed(r, p) == r.ok => Len(r.p.lx) < Len(p.lx)

SyncKinds == {"EOF", "KW_CLASS", "KW_FN", "KW_LET", "KW_IF", "KW_WHILE", "KW_FOR", "KW_RETURN"}

\* an iteration of the top-level loop consumes a token; one that caught a
\* ParseError recorded it and left the parser at a synchronization point
C14_TopLevelStep ==
    pc' = "parse" =>
        /\ Len(comp'.parser.lx) < Len(comp.parser.lx)
        /\ \/ /\ comp'.errors = comp.errors
              /\ Len(comp'.classes) + Len(comp'.functions)
                    = Len(comp.classes) + Len(comp.functions) + 1
           \/ /\ Len(comp'.errors) = Len(comp.errors) + 1
              /\ comp'.classes = comp.classes /\ comp'.functions = comp.functions
              /\ cur(source, comp'.parser).kind \in SyncKinds

\* an iteration of the class-body loop or of the block loop, started at any
\* token the parser has yet to consume, consumes a token or raises
C14_InnerLoops ==
    \A p \in Suffixes(source, comp.parser) :
        LoopContinues(source, p) =>
            /\ RaisedOrConsumed(parse_statement(source, p), p)
            /\ RaisedOrConsumed(ClassMember(source, p), p)

\* C14: Parser.parse() terminates and returns a Program without raising:
\* every ParseError raised while parsing a declaration is caught, recorded
\* and followed by synchronize(), and every iteration of the top-level loop,
\* of the class-body loop and of the block loop consumes a token or raises
\* (the tokens left are finitely many, so the loops end), and no exception
\* leaves parse().
C14_ParseReturnsProgram ==
    /\ [][C14_TopLevelStep]_vars
    /\ []C14_InnerLoops
    /\ [](pc # "raised")
    /\ [](ParseReturned => The(ast).node = "Program")

\* the same without the requirement that no exception leaves parse(): it
\* holds, the loops do end
C14_LoopsProgress == [][C14_TopLevelStep]_vars /\ []C14_InnerLoops

\* the CompilationErrors Compiler.compile builds from parser.errors
\* (compiler.py, lines 89-96)
ParserDiagnostics == StageErrors("parser", comp.errors)

\* C15: every CompilationError other than the missing-main diagnostic
\* carries line >= 1 and column >= 0, the position of the first character of
\* the offending token, also when the parser diagnostic is raised because the
\* input ends unexpectedly.
C15_DiagnosticPositions ==
    \A e \in Range(ParserDiagnostics) :
        /\ e.line >= 1
        /\ e.column >= 0
        /\ \E t \in Range(LexAll(source)) :
              t.kind # "EOF" /\ t.linenum = e.line /\ t.column = e.column

\* the tokens the parser p has not consumed, its lookahead first
Unconsumed(p) ==
    IF p.current.kind = "EOF" THEN <<p.current>> ELSE <<p.current>> \o p.lx

\* the suffix of toks that starts at its first token meeting Where
SuffixFrom(toks, Where(_)) ==
    IF \E i \in DOMAIN toks : Where(toks[i])
    THEN SubSeq(toks,
                CHOOSE i \in DOMAIN toks :
                    Where(toks[i]) /\ \A j \in 1..(i - 1) : ~Where(toks[j]),
                Len(toks))
    ELSE <<>>

\* the top-level loop caught a ParseError in this step
CaughtError == pc' = "parse" /\ Len(comp'.errors) = Len(comp.errors) + 1

\* the offending token of the error caught in this step
Offending == comp'.errors[Len(comp'.errors)].token

\* the unconsumed tokens from the offending token on
FromOffending ==
    SuffixFrom(Unconsumed(comp.parser),
               LAMBDA t : t.kind = "EOF" \/ (t.linenum = Offending.linenum
                                             /\ t.column = Offending.column))

\* C21: after a ParseError, parsing resumes at the first token at or after
\* the offending token that is class, fn, let, if, while, for, return or
\* EOF; an offending `fn` or `class` keyword is itself the point of resumption.
C21_ResumesAtOffendingOrAfter ==
    [][CaughtError =>
        Unconsumed(comp'.parser)
            = SuffixFrom(FromOffending, LAMBDA t : t.kind \in SyncKinds)]_vars

\* parsing resumes at the first such token after the offending token, or at
\* EOF when the offending token is EOF: it holds
C21_ResumesAfterOffending ==
    [][CaughtError =>
        Unconsumed(comp'.parser)
            = IF Offending.kind = "EOF" THEN FromOffending
              ELSE SuffixFrom(Tail(FromOffending), LAMBDA t : t.kind \in SyncKinds)]_vars

(***************************************************************************)
(* Claims about expressions, checked under SpecExpr                        *)
(***************************************************************************)
\* C10: the lexer emits OP_OROR for `||` and OP_ANDAND for `&&`, so that the
\* source expression `x || y` is parsed as a BinaryExpr with operator OR
\* and emitted as the C expression `(x || y)`, never as a conjunction (and
\* `x && y` as AND, emitted `(x && y)`).
C10_OrIsDisjunction ==
    \A x \in ExprOperands, y \in ExprOperands :
        /\ (pc = "done" /\ source = x \o " || " \o y) =>
              /\ tokens[2].kind = "OP_OROR"
              /\ The(ast).op = "OR"
              /\ The(ccode) = "(" \o x \o " || " \o y \o ")"
        /\ (pc = "done" /\ source = x \o " && " \o y) =>
              /\ tokens[2].kind = "OP_ANDAND"
              /\ The(ast).op = "AND"
              /\ The(ccode) = "(" \o x \o " && " \o y \o ")"


\* the operator a binary operator's text stands for, and its binding level
\* (1 binds loosest)
OperatorOf ==
    [o \in ExprOperators |->
        CASE o = "+" -> "ADD"  [] o = "-" -> "SUB"  [] o = "*" -> "MUL"
          [] o = "/" -> "DIV"  [] o = "%" -> "MOD"  [] o = "==" -> "EQ"
          [] o = "!=" -> "NEQ" [] o = "<" -> "LT"   [] o = "<=" -> "LEQ"
          [] o = ">" -> "GT"   [] o = ">=" -> "GEQ" [] o = "&&" -> "AND"
          [] o = "||" -> "OR"]

BindingLevel ==
    [o \in ExprOperators |->
        CASE o = "||" -> 1
          [] o = "&&" -> 2
          [] o \in {"==", "!="} -> 3
          [] o \in {"<", "<=", ">", ">="} -> 4
          [] o \in {"+", "-"} -> 5
          [] o \in {"*", "/", "%"} -> 6]

\* an expression tree without its source locations
RECURSIVE Shape(_)
Shape(expr) ==
    CASE expr.node = "BinaryExpr" -> <<expr.op, Shape(expr.left), Shape(expr.right)>>
      [] expr.node = "UnaryExpr" -> <<expr.op, Shape(expr.operand)>>
      [] expr.node = "Identifier" -> <<expr.name>>
      [] expr.node = "IntLiteral" -> <<ToString(expr.value)>>
      [] OTHER -> <<expr.node>>

\* the tree of a unary prefix u applied to the tree t
Prefixed(u, t) ==
    CASE u = "" -> t [] u = "-" -> <<"NEG", t>> [] u = "!" -> <<"NOT", t>>

ExprParsed == pc \in {"generate", "done"}

\* C11: parse_expression builds the tree in which binary operators bind by
\* the levels ||, &&, ==/!=, relational, +/-, * / % (lowest to highest),
\* operators of one level group to the left, and unary - and ! bind tighter
\* than every binary operator and nest to the right.
C11_PrecedenceAndAssociativity ==
    /\ \A u \in ExprPrefixes, x \in ExprOperands, o \in ExprOperators, y \in ExprOperands :
          (ExprParsed /\ source = u \o x \o " " \o o \o " " \o y) =>
              Shape(The(ast)) = <<OperatorOf[o], Prefixed(u, <<x>>), <<y>>>>
    /\ \A u1 \in ExprPrefixes \ {""}, u2 \in ExprPrefixes \ {""}, o \in ExprOperators :
          (ExprParsed /\ source = u1 \o u2 \o "a " \o o \o " b") =>
              Shape(The(ast)) = <<OperatorOf[o], Prefixed(u1, Prefixed(u2, <<"a">>)), <<"b">>>>
    /\ \A o1 \in ExprOperators, o2 \in ExprOperators :
          (ExprParsed /\ source = "a " \o o1 \o " b " \o o2 \o " c") =>
              Shape(The(ast)) =
                  IF BindingLevel[o2] > BindingLevel[o1]
                  THEN <<OperatorOf[o1], <<"a">>, <<OperatorOf[o2], <<"b">>, <<"c">>>>>>
                  ELSE <<OperatorOf[o2], <<OperatorOf[o1], <<"a">>, <<"b">>>>, <<"c">>>>

\* the same statement over the operators other than `||`: it holds, so the
\* trees differ from the stated ones only where `||` occurs
C11_WithoutOr ==
    /\ \A u \in ExprPrefixes, x \in ExprOperands, o \in ExprOperators \ {"||"}, y \in ExprOperands :
          (ExprParsed /\ source = u \o x \o " " \o o \o " " \o y) =>
              Shape(The(ast)) = <<OperatorOf[o], Prefixed(u, <<x>>), <<y>>>>
    /\ \A u1 \in ExprPrefixes \ {""}, u2 \in ExprPrefixes \ {""}, o \in ExprOperators \ {"||"} :
          (ExprParsed /\ source = u1 \o u2 \o "a " \o o \o " b") =>
              Shape(The(ast)) = <<OperatorOf[o], Prefixed(u1, Prefixed(u2, <<"a">>)), <<"b">>>>
    /\ \A o1 \in ExprOperators \ {"||"}, o2 \in ExprOperators \ {"||"} :
          (ExprParsed /\ source = "a " \o o1 \o " b " \o o2 \o " c") =>
              Shape(The(ast)) =
                  IF BindingLevel[o2] > BindingLevel[o1]
                  THEN <<OperatorOf[o1], <<"a">>, <<OperatorOf[o2], <<"b">>, <<"c">>>>>>
                  ELSE <<OperatorOf[o2], <<OperatorOf[o1], <<"a">>, <<"b">>>>, <<"c">>>>

(***************************************************************************)
(* Claims about CodeGenerator.generate, checked under SpecGenerate         *)
(***************************************************************************)
\* generate() has returned the translation unit
GenerateReturned == pc.phase = "returned"

\* the first index of line in output, 0 when it is not a line of it
IndexOfLine(output, line) ==
    IF \E i \in DOMAIN output : output[i] = line
    THEN CHOOSE i \in DOMAIN output :
            output[i] = line /\ \A j \in 1..(i - 1) : output[j] # line
    ELSE 0

\* the lines between the line `opening` and the next line `closing`
BodyOf(output, opening, closing) ==
    LET i == IndexOfLine(output, opening)
        j == CHOOSE j \in (i + 1)..Len(output) :
                output[j] = closing /\ \A m \in (i + 1)..(j - 1) : output[m] # closing
    IN  SubSeq(output, i + 1, j - 1)

\* the class of the program that is named name
ClassNamed(program, name) ==
    CHOOSE c \in {program.classes[k] : k \in DOMAIN program.classes} : c.name = name

Declared(program, name) == \E k \in DOMAIN program.classes : program.classes[k].name = name

\* the classes from cls up to the root of its inheritance chain, cls first;
\* the chains of a program whose translation unit was returned are finite
RECURSIVE ChainOf(_, _, _)
ChainOf(program, cls, seen) ==
    IF IsSome(cls.base_class) /\ Declared(program, The(cls.base_class))
       /\ The(cls.base_class) \notin seen
    THEN <<cls>> \o ChainOf(program, ClassNamed(program, The(cls.base_class)),
                            seen \cup {cls.name})
    ELSE <<cls>>

\* every field reachable through the inheritance chain of cls, the fields
\* of the root first and the fields cls declares last
RECURSIVE FieldsOf(_)
FieldsOf(chain) ==
    IF Len(chain) = 0 THEN <<>> ELSE FieldsOf(Tail(chain)) \o Head(chain).fields

\* the member lines of a struct that holds the vtable pointer, then fields
StructMembers(name, fields) ==
    <<"    struct " \o name \o "_vtable* __vtable;">>
    \o [k \in DOMAIN fields |->
            "    " \o type_to_c(Some(fields[k].type_annotation)) \o " "
                \o fields[k].name \o ";"]

\* C17: once the translation unit is returned, the struct of every class
\* that has a base class holds the vtable pointer, then every field of the
\* base in source order, the fields the base inherits included, then the
\* fields the class declares.
C17_StructHoldsChainFields ==
    GenerateReturned =>
        \A k \in DOMAIN ast.classes :
            IsSome(ast.classes[k].base_class) =>
                BodyOf(generator.output, "struct " \o ast.classes[k].name \o " {", "};")
                    = StructMembers(ast.classes[k].name,
                                    FieldsOf(ChainOf(ast, ast.classes[k], {})))

\* the same for the classes whose base class has no base class: it holds
C17_DirectBaseFields ==
    GenerateReturned =>
        \A k \in DOMAIN ast.classes :
            (Len(ChainOf(ast, ast.classes[k], {})) = 2) =>
                BodyOf(generator.output, "struct " \o ast.classes[k].name \o " {", "};")
                    = StructMembers(ast.classes[k].name,
                                    FieldsOf(ChainOf(ast, ast.classes[k], {})))

\* cls declares the method m, its constructor aside
Declares(cls, m) ==
    m # cls.name /\ \E k \in DOMAIN cls.methods : cls.methods[k].name = m

\* the same with the test the generator applies: the body has a statement
Implements(cls, m) ==
    m # cls.name /\ \E k \in DOMAIN cls.methods :
        cls.methods[k].name = m /\ HasBody(cls.methods[k])

\* the methods that cls declares or inherits
MethodNamesOf(chain) ==
    {m \in UNION {{chain[i].methods[k].name : k \in DOMAIN chain[i].methods} :
                    i \in DOMAIN chain} :
        \E i \in DOMAIN chain : Declares(chain[i], m)}

\* the nearest class of the chain, from the class upward, that meets Has for m
Nearest(chain, m, Has(_, _)) ==
    chain[CHOOSE i \in DOMAIN chain :
            Has(chain[i], m) /\ \A j \in 1..(i - 1) : ~Has(chain[j], m)]

\* the lines of struct name_vtable that declare a slot m
SlotsNamed(output, name, m) ==
    LET body == BodyOf(output, "struct " \o name \o "_vtable {", "};")
    IN  {i \in DOMAIN body : Contains(body[i], "(*" \o m \o ")(")}

\* the functions that name_vtable_init assigns to the slot m
AssignedTo(output, name, m) ==
    LET body == BodyOf(output, "void " \o name \o "_vtable_init() {", "}")
        slot == "    " \o name \o "_vtable_instance." \o m \o " = "
    IN  {SubSeq(body[i], Len(slot) + 1, Len(body[i]) - 1) :
            i \in {j \in DOMAIN body : Len(body[j]) > Len(slot)
                                       /\ SubSeq(body[j], 1, Len(slot)) = slot}}

\* the slots of the vtable of every class are filled from the nearest class
\* that meets Has
SlotsFilledFrom(Has(_, _)) ==
    \A k \in DOMAIN ast.classes :
        LET cls == ast.classes[k]
            chain == ChainOf(ast, cls, {})
        IN  \A m \in MethodNamesOf(chain) :
                /\ Cardinality(SlotsNamed(generator.output, cls.name, m)) = 1
                /\ (\E i \in DOMAIN chain : Has(chain[i], m)) =>
                        AssignedTo(generator.output, cls.name, m)
                            = {Nearest(chain, m, Has).name \o "_" \o m}

\* C18: once the translation unit is returned, for every class C and every
\* method m, constructors aside, that C or an ancestor of C declares,
\* struct C_vtable has exactly one slot m and C_vtable_init assigns it X_m,
\* X being the nearest class from C upward that declares m (a declaration
\* always has a body, which may be empty).
C18_MostDerivedImplementation == GenerateReturned => SlotsFilledFrom(Declares)

\* the same with X the nearest class whose m has a statement in its body: it
\* holds
C18_NearestNonEmptyBody == GenerateReturned => SlotsFilledFrom(Implements)

\* s starts with prefix
StartsWith(s, prefix) == Len(s) >= Len(prefix) /\ SubSeq(s, 1, Len(prefix)) = prefix

\* a line of the unit, the first line of the definition of callee aside,
\* mentions callee followed by `(`: the only way the C code of the unit can
\* run a function that is not main
Calls(output, callee, definition) ==
    \E i \in DOMAIN output :
        Contains(output[i], callee \o "(") /\ ~StartsWith(output[i], definition)

\* the unit constructs an instance of the class name
Instantiates(output, name) ==
    Calls(output, name \o "_new", name \o "* " \o name \o "_new(")

\* the unit runs the vtable initializer of the class name
InvokesInit(output, name) ==
    Calls(output, name \o "_vtable_init", "void " \o name \o "_vtable_init(")

\* C19: in a returned translation unit every class that the program
\* instantiates has its C_vtable_init invoked by the emitted code, which is
\* necessary for the initializer to run before the first C_new.
C19_VtableInitInvoked ==
    GenerateReturned =>
        \A k \in DOMAIN ast.classes :
            Instantiates(generator.output, ast.classes[k].name) =>
                InvokesInit(generator.output, ast.classes[k].name)

\* the initializer of every class is defined in the unit: it holds
C19_VtableInitDefined ==
    GenerateReturned =>
        \A k \in DOMAIN ast.classes :
            IndexOfLine(generator.output,
                        "void " \o ast.classes[k].name \o "_vtable_init() {") > 0

\* generate() was left by an exception
GenerateRaised == pc.phase = "raised"

\* the base classes of cls lead back to a class already met
RECURSIVE OnCycle(_, _, _)
OnCycle(program, cls, seen) ==
    /\ IsSome(cls.base_class) /\ Declared(program, The(cls.base_class))
    /\ \/ The(cls.base_class) \in seen \cup {cls.name}
       \/ OnCycle(program, ClassNamed(program, The(cls.base_class)), seen \cup {cls.name})

\* C20: generate() is only started on a program that analysis accepted with
\* no diagnostic, and it is never left by an exception: each of its steps
\* ends and leads to the next one or to the return of the C text.
C20_GenerateReturnsText == ~GenerateRaised

\* a program none of whose classes has itself among its ancestors is
\* generated without an exception: it holds
C20_AcyclicReturnsText ==
    GenerateRaised => \E k \in DOMAIN ast.classes : OnCycle(ast, ast.classes[k], {})

(***************************************************************************)
(* Claims about inheritance, types and scopes in the analyzer, checked     *)
(* under SpecAnalyze                                                       *)
(***************************************************************************)
\* analyze() has returned
AnalyzeReturned == pc.phase = "done"

\* the base class of cls is bound to a ClassSymbol in the global scope
BaseResolves(a, cls) ==
    /\ IsSome(DictGet(a.global_scope, The(cls.base_class)))
    /\ The(DictGet(a.global_scope, The(cls.base_class))).sym = "class"

\* C23: when analyze() returns no diagnostic, the base class of every class
\* that has one is bound to a class symbol of the global scope and the chain
\* of base classes from every class is finite: no class is its own ancestor.
C23_BaseChainsWellFounded ==
    (AnalyzeReturned /\ an.errors = <<>>) =>
        \A k \in DOMAIN ast.classes :
            /\ IsSome(ast.classes[k].base_class) => BaseResolves(an, ast.classes[k])
            /\ ~OnCycle(ast, ast.classes[k], {})

\* the part about base names that are bound to a class: it holds
C23_BaseResolves ==
    (AnalyzeReturned /\ an.errors = <<>>) =>
        \A k \in DOMAIN ast.classes :
            IsSome(ast.classes[k].base_class) => BaseResolves(an, ast.classes[k])

\* the class that the local name of the function func is created from by
\* `let name = new C(...)`, None when func has no such statement
CreatedAs(func, name) ==
    LET created == SelectSeq(The(func.body),
                             LAMBDA s : /\ s.node = "VarDecl" /\ s.name = name
                                        /\ IsSome(s.initializer)
                                        /\ The(s.initializer).node = "NewExpr")
    IN  IF Len(created) = 0 THEN None ELSE Some(The(created[1].initializer).class_name)

\* the member accesses obj.f and method calls obj.m(...) that are a
\* statement or the initializer of a `let` of func, obj being a local
\* created from a declared class: [node, member, method, class]
MemberUses(func) ==
    LET Use(e) ==
            IF e.node = "CallExpr" /\ e.callee.node = "MemberExpr"
               /\ e.callee.obj.node = "Identifier"
            THEN <<[node |-> e, member |-> e.callee.member, method |-> TRUE,
                    class |-> CreatedAs(func, e.callee.obj.name)]>>
            ELSE IF e.node = "MemberExpr" /\ e.obj.node = "Identifier"
            THEN <<[node |-> e, member |-> e.member, method |-> FALSE,
                    class |-> CreatedAs(func, e.obj.name)]>>
            ELSE <<>>
        OfStmt(s) ==
            IF s.node = "ExprStmt" THEN Use(s.expr)
            ELSE IF s.node = "VarDecl" /\ IsSome(s.initializer) THEN Use(The(s.initializer))
            ELSE <<>>
    IN  SelectSeq(FlatMap(The(func.body), OfStmt),
                  LAMBDA u : IsSome(u.class) /\ Declared(ast, The(u.class)))

\* one of the classes of chain declares the member that u uses
DeclaredOn(chain, u) ==
    \E i \in DOMAIN chain :
        IF u.method
        THEN \E k \in DOMAIN chain[i].methods : chain[i].methods[k].name = u.member
        ELSE \E k \in DOMAIN chain[i].fields : chain[i].fields[k].name = u.member

\* analyze() reported that the member of the use u was not found
NotFound(u) ==
    \E e \in Range(an.errors) : Contains(e.message, "not found in class") /\ At(e, u.node)

\* the classes in which the members of every use are found are those of
\* Where(the chain of the receiver's class, the use)
MembersFoundOn(Where(_, _)) ==
    \A f \in DOMAIN ast.functions :
        HasBody(ast.functions[f]) =>
            \A u \in Range(MemberUses(ast.functions[f])) :
                NotFound(u) <=>
                    ~DeclaredOn(Where(ChainOf(ast, ClassNamed(ast, The(u.class)), {}), u), u)

\* C25: a field access obj.f or a method call obj.m(...) gets a 'not found'
\* diagnostic exactly when no class on the base chain of the static class
\* of obj declares the member, for fields as for methods and for a
\* grandparent as for the direct base.
C25_MembersResolveOnChain ==
    AnalyzeReturned => MembersFoundOn(LAMBDA chain, u : chain)

\* a method is looked up in the class and its direct base only, a field in
\* the class only: it holds
C25_MembersResolveNearby ==
    AnalyzeReturned =>
        MembersFoundOn(LAMBDA chain, u :
            SubSeq(chain, 1, IF u.method /\ Len(chain) > 1 THEN 2 ELSE 1))

\* the `let` statements of stmts that reuse a name of names or of an
\* earlier `let` of the same list, and those of the nested lists likewise,
\* each nested list starting a scope of its own (the body of a `for` shares
\* its scope with the loop's own `let`)
RECURSIVE Redeclared(_, _)
Redeclared(stmts, names) ==
    LET Earlier(i) == names \cup {stmts[j].name : j \in {k \in 1..(i - 1) : stmts[k].node = "VarDecl"}}
        Nested(s) ==
            CASE s.node = "IfStmt" ->
                    Redeclared(s.then_branch, {})
                    \cup (IF IsSome(s.else_branch) THEN Redeclared(The(s.else_branch), {}) ELSE {})
              [] s.node = "WhileStmt" -> Redeclared(s.body, {})
              [] s.node = "ForStmt" ->
                    Redeclared(s.body, IF IsSome(s.init) /\ The(s.init).node = "VarDecl"
                                       THEN {The(s.init).name} ELSE {})
              [] s.node = "Block" -> Redeclared(s.statements, {})
              [] OTHER -> {}
    IN  {stmts[i] : i \in {k \in DOMAIN stmts : /\ stmts[k].node = "VarDecl"
                                                /\ stmts[k].name \in Earlier(k)}}
        \cup UNION {Nested(stmts[i]) : i \in DOMAIN stmts}

\* every `let` of stmts and of its nested lists
RECURSIVE Lets(_)
Lets(stmts) ==
    LET Nested(s) ==
            CASE s.node = "IfStmt" ->
                    Lets(s.then_branch)
                    \cup (IF IsSome(s.else_branch) THEN Lets(The(s.else_branch)) ELSE {})
              [] s.node = "WhileStmt" -> Lets(s.body)
              [] s.node = "ForStmt" -> Lets(s.body)
              [] s.node = "Block" -> Lets(s.statements)
              [] OTHER -> {}
    IN  {stmts[i] : i \in {k \in DOMAIN stmts : stmts[k].node = "VarDecl"}}
        \cup UNION {Nested(stmts[i]) : i \in DOMAIN stmts}

ParamNames(decl) == {Params(decl)[k].name : k \in DOMAIN Params(decl)}

IsMethod(decl) == \E c \in DOMAIN ast.classes : decl \in Range(ast.classes[c].methods)

\* analyze() rejected the `let` as already defined in its scope
Rejected(stmt) ==
    \E e \in Range(an.errors) :
        /\ e.message = "Variable '" \o stmt.name \o "' already defined in this scope"
        /\ At(e, stmt)

\* the rejected `let`s are those that redeclare a name of their own list,
\* the top list of a body starting with the names Outer(decl)
RejectedWithin(Outer(_)) ==
    \A decl \in Range(Bodies(ast)) :
        \A stmt \in Lets(The(decl.body)) :
            Rejected(stmt) <=> stmt \in Redeclared(The(decl.body), Outer(decl))

\* C26: a `let` is rejected as 'already defined in this scope' only if the
\* same name was declared earlier in the same innermost scope; a `let` in a
\* nested block, branch or loop body that reuses an outer local's name is
\* accepted, and so is a `let` at the top of a function or method body that
\* reuses a parameter name.
C26_RejectedOnlyInInnermostScope ==
    AnalyzeReturned => RejectedWithin(LAMBDA decl : {})

\* the top list of a body shares its scope with the parameters, and in a
\* method with `this`: it holds
C26_BodySharesParameterScope ==
    AnalyzeReturned =>
        RejectedWithin(LAMBDA decl :
            ParamNames(decl) \cup (IF IsMethod(decl) THEN {"this"} ELSE {}))

\* the comparisons `l == r` and `l != r` that initialize a `let` of a
\* function body, each with the types _analyze_expr gives its operands:
\* [node, left, right]
Equalities(program, a) ==
    FlatMap(SelectSeq(program.functions, HasBody), LAMBDA f :
        FlatMap(The(f.body), LAMBDA s :
            IF s.node = "VarDecl" /\ IsSome(s.initializer)
               /\ The(s.initializer).node = "BinaryExpr"
               /\ The(s.initializer).op \in {"EQ", "NEQ"}
            THEN LET e == The(s.initializer)
                     l == analyze_expr(a, e.left)
                     r == analyze_expr(a, e.right)
                 IN  IF IsSome(l.t) /\ IsSome(r.t) /\ ~l.hang /\ ~r.hang
                     THEN <<[node |-> e, left |-> The(l.t), right |-> The(r.t)]>>
                     ELSE <<>>
            ELSE <<>>))

\* analyze() reported that the operands of the comparison cannot be compared
CannotCompare(c) ==
    \E e \in Range(an.errors) :
        /\ e.message = "Cannot compare " \o c.left.name \o " with " \o c.right.name
        /\ At(e, c.node)

\* C30: the acceptance of `a == b` and `a != b` is symmetric in the
\* operands: 'Cannot compare' is reported for operand types (s, t) exactly
\* when it is reported for (t, s), for int and float and for a subclass and
\* its superclass in particular.
C30_ComparisonSymmetric ==
    AnalyzeReturned =>
        \A c, d \in Range(Equalities(ast, an)) :
            (c.left = d.right /\ c.right = d.left) => (CannotCompare(c) <=> CannotCompare(d))

\* the report follows _types_compatible with the left operand as the
\* expected type and the right operand as the actual one: it holds
C30_ComparisonFollowsCompatible ==
    AnalyzeReturned =>
        \A c \in Range(Equalities(ast, an)) :
            CannotCompare(c) <=> types_compatible(an.global_scope, c.left, c.right) = "false"

(***************************************************************************)
(* Claims about _types_compatible, checked under SpecTypes                 *)
(***************************************************************************)
\* name is bound to a ClassSymbol in the global scope
IsClassName(global_scope, name) ==
    IsSome(DictGet(global_scope, name)) /\ The(DictGet(global_scope, name)).sym = "class"

\* the names of the classes met by following base-class links from the
\* class name, name included
RECURSIVE ReachedFrom(_, _, _)
ReachedFrom(global_scope, name, seen) ==
    IF name \in seen \/ ~IsClassName(global_scope, name) THEN seen
    ELSE LET base_class == The(DictGet(global_scope, name)).base_class
         IN  IF IsSome(base_class)
             THEN ReachedFrom(global_scope, The(base_class), seen \cup {name})
             ELSE seen \cup {name}

\* expected and actual are class types with the same array flag and the
\* base-class links from actual reach expected
Subclass(global_scope, expected, actual) ==
    /\ IsClassName(global_scope, expected.name) /\ IsClassName(global_scope, actual.name)
    /\ expected.is_array = actual.is_array
    /\ expected.name \in ReachedFrom(global_scope, actual.name, {})

\* the call of _types_compatible has been made
TypesCalled == pc # "call"

\* C24: _types_compatible(expected, actual) returns, and returns true
\* exactly when the two types are identical, or expected is float and
\* actual is int, or both are class types with the same array flag and
\* expected is reached by following base-class links from actual.
C24_CompatibleExactlyWhen ==
    TypesCalled =>
        /\ pc = "returned"
        /\ The(call.result) <=>
                \/ call.expected = call.actual
                \/ call.expected = FLOAT_TYPE /\ call.actual = INT_TYPE
                \/ Subclass(an.global_scope, call.expected, call.actual)

\* the same for two types that are not arrays and an actual type whose
\* base-class links end: it holds
C24_ScalarsOfFiniteChains ==
    (/\ TypesCalled
     /\ ~call.expected.is_array /\ ~call.actual.is_array
     /\ ~IsClassName(an.global_scope, "A") \/ ~OnCycle(ast, ClassNamed(ast, "A"), {})) =>
        /\ pc = "returned"
        /\ The(call.result) <=>
                \/ call.expected = call.actual
                \/ call.expected = FLOAT_TYPE /\ call.actual = INT_TYPE
                \/ Subclass(an.global_scope, call.expected, call.actual)

(***************************************************************************)
(* Claims about what the generator emits for the programs that the         *)
(* analyzer accepts, checked under SpecGenerate                            *)
(***************************************************************************)

\* the `new C(args)` expressions that initialize a `let` of a function body
NewExprs(program) ==
    FlatMap(program.functions, LAMBDA f :
        IF IsNone(f.body) THEN <<>>
        ELSE FlatMap(The(f.body), LAMBDA s :
                IF s.node = "VarDecl" /\ IsSome(s.initializer)
                   /\ The(s.initializer).node = "NewExpr"
                THEN <<The(s.initializer)>> ELSE <<>>))

\* the constructors that the class named name declares
Constructors(program, name) ==
    SelectSeq(ClassNamed(program, name).methods, LAMBDA m : m.name = name)

\* the unit defines name_new with n parameters: the first line of a
\* definition of name_new is emitted for a constructor, with its parameters
DefinesNew(output, program, name, n) ==
    \E m \in Range(Constructors(program, name)) :
        /\ Len(m.params) = n
        /\ IndexOfLine(output, name \o "* " \o name \o "_new("
                                 \o params_to_c(m.params) \o ") {") > 0

\* C27: for every `new C(args)` of an accepted program the returned
\* translation unit defines a function C_new with as many parameters as the
\* call has arguments, also when C declares no constructor or a constructor
\* without a body.
C27_NewIsDefined ==
    GenerateReturned =>
        \A e \in Range(NewExprs(ast)) :
            DefinesNew(generator.output, ast, e.class_name, Len(e.arguments))

\* C_new is defined exactly for the classes that declare a constructor with
\* statements in its body: it holds
C27_NewDefinedForConstructorBodies ==
    GenerateReturned =>
        \A e \in Range(NewExprs(ast)) :
            DefinesNew(generator.output, ast, e.class_name, Len(e.arguments))
                <=> \E m \in Range(Constructors(ast, e.class_name)) : HasBody(m)

\* the identifier word occurs in line as a whole word
MentionsWord(line, word) ==
    \E i \in 1..(Len(line) - Len(word) + 1) :
        /\ SubSeq(line, i, i + Len(word) - 1) = word
        /\ i > 1 => SubSeq(line, i - 1, i - 1) \notin AlNum
        /\ i + Len(word) <= Len(line) =>
                SubSeq(line, i + Len(word), i + Len(word)) \notin AlNum

\* the first line of the C function emitted for the method of cls
DefinitionLine(cls, method) ==
    IF method.name = cls.name
    THEN cls.name \o "* " \o cls.name \o "_new(" \o params_to_c(method.params) \o ") {"
    ELSE RetType(method.return_type) \o " " \o cls.name \o "_" \o method.name \o "("
            \o params_to_c_with_self(cls.name, method.params) \o ") {"

\* the methods and constructors with statements, each with its class
MethodBodies(program) ==
    FlatMap(program.classes, LAMBDA c :
        [k \in DOMAIN SelectSeq(c.methods, HasBody) |->
            [cls |-> c, method |-> SelectSeq(c.methods, HasBody)[k]]])

\* every emitted function of a method whose source body mentions `this`
\* satisfies Emitted(the lines of its C body)
ReceiverEmitted(Emitted(_)) ==
    \A mb \in Range(MethodBodies(ast)) :
        (\E s \in Range(The(mb.method.body)) :
            \E e \in Range(FlatMap(StmtExprs(s), IdentifiersOf)) : e.name = "this")
        => Emitted(BodyOf(generator.output, DefinitionLine(mb.cls, mb.method), "}"))

\* C28: every identifier emitted in the body of a generated method or
\* constructor names a parameter or local of the generated C function; the
\* receiver, bound as `this` by the analyzer, is emitted as `self`, so no
\* line of the body names `this`, which the C function does not declare.
C28_ReceiverEmittedAsSelf ==
    GenerateReturned =>
        ReceiverEmitted(LAMBDA body : \A i \in DOMAIN body : ~MentionsWord(body[i], "this"))

\* the receiver is emitted under its source name `this`: it holds
C28_ReceiverEmittedAsThis ==
    GenerateReturned =>
        ReceiverEmitted(LAMBDA body : \E i \in DOMAIN body : MentionsWord(body[i], "this"))

\* the un-annotated `let x = e` statements of a function body, each with
\* the type _analyze_expr gives e in the global scope and the emitted lines
\* of the function: [stmt, type, body]
InferredLets(program, a, output) ==
    FlatMap(SelectSeq(program.functions, HasBody), LAMBDA f :
        LET body == BodyOf(output, RetType(f.return_type) \o " " \o f.name \o "("
                                       \o params_to_c(f.params) \o ") {", "}")
            Typed(s) ==
                IF s.node = "VarDecl" /\ IsNone(s.type_annotation) /\ IsSome(s.initializer)
                THEN LET r == analyze_expr(a, The(s.initializer))
                     IN  IF r.errs = <<>> /\ ~r.hang /\ IsSome(r.t)
                         THEN <<[stmt |-> s, type |-> The(r.t), body |-> body]>>
                         ELSE <<>>
                ELSE <<>>
        IN  FlatMap(The(f.body), Typed))

\* the function declares the variable of the `let` with the C type c_type
DeclaredAs(l, c_type) ==
    \E i \in DOMAIN l.body :
        StartsWith(l.body[i], Spaces(1) \o c_type \o " " \o l.stmt.name \o " = ")

\* C29: for every accepted un-annotated `let x = e` the C type declared
\* for x is the lowering of the type the analyzer inferred for e: double
\* for a float, const char* for a string, bool for a comparison, C* for a
\* class C, int only for an int.
C29_DeclaredTypeIsInferredType ==
    GenerateReturned =>
        \A l \in Range(InferredLets(ast, an, generator.output)) :
            DeclaredAs(l, type_to_c(Some(l.type)))

\* the declared type is the type of the initializer when it is a literal
\* or a `new`, and int otherwise: it holds
C29_DeclaredTypeOfLiteral ==
    GenerateReturned =>
        \A l \in Range(InferredLets(ast, an, generator.output)) :
            DeclaredAs(l, IF The(l.stmt.initializer).node
                                \in {"IntLiteral", "FloatLiteral", "StringLiteral",
                                     "CharLiteral", "BoolLiteral", "NewExpr"}
                          THEN type_to_c(Some(l.type)) ELSE "int")
====
